---- MODULE Spec2Model ----
(***************************************************************************)
(* UpaPasta: the orchestrator (src/upapasta/main.py), its cleanup, the     *)
(* archiver wrapper (src/upapasta/makerar.py) and the upload progress      *)
(* parser (src/main.py), as state machines.                                *)
(*                                                                         *)
(* Spec         one invocation of UpaPastaOrchestrator.run()               *)
(* SpecCleanup  UpaPastaOrchestrator.cleanup() called repeatedly           *)
(* SpecParser   UploadProgressParser.parse_line() fed a sequence of lines  *)
(***************************************************************************)
EXTENDS Integers, Sequences, FiniteSets, TLC

(* ------------------------------ bounds --------------------------------- *)

\* parity volume files <base>.vol<NN>+<MM>.par2 that may exist
MaxVolumes == 2
\* calls of cleanup() in SpecCleanup
MaxCleanupCalls == 2

(* ------------------------------ paths ---------------------------------- *)

\* A path in the parent directory of the input folder: <parent>/<stem><ext>,
\* ext one of ".rar", ".par2", ".vol<NN>+<MM>.par2" (vol numbers the volume).
Folders == {"photos", "docs"}

NoPath == [stem |-> "", kind |-> "none", vol |-> 0]

\* self.folder_path.parent / f"{self.folder_path.name}.rar"
RarPath(name) == [stem |-> name, kind |-> "rar", vol |-> 0]

\* os.path.splitext(path)[0]
Splitext0(p) == p.stem

\* os.path.splitext(self.rar_file)[0] + ".par2"
ParPath(rar) == [stem |-> Splitext0(rar), kind |-> "par2", vol |-> 0]

VolPath(base, i) == [stem |-> base, kind |-> "vol", vol |-> i]

\* glob.glob(glob.escape(base_name) + ".vol*.par2")
GlobVolumes(base, files) == {f \in files : f.stem = base /\ f.kind = "vol"}

ParityFiles(base) ==
    {[stem |-> base, kind |-> "par2", vol |-> 0]} \cup {VolPath(base, i) : i \in 1..MaxVolumes}

ArtifactFiles(name) == {RarPath(name)} \cup ParityFiles(name)

(* --------------------------- credentials ------------------------------- *)

RequiredKeys == {"NNTP_HOST", "NNTP_PORT", "NNTP_USER", "NNTP_PASS", "USENET_GROUP"}

EmptyDict == [k \in {} |-> ""]

CompleteEnv ==
    [k \in RequiredKeys |->
        CASE k = "NNTP_HOST" -> "news.real.net"
          [] k = "NNTP_PORT" -> "563"
          [] k = "NNTP_USER" -> "alice"
          [] k = "NNTP_PASS" -> "secret"
          [] OTHER -> "alt.binaries.test"]

DefaultHostEnv == [CompleteEnv EXCEPT !["NNTP_HOST"] = "news.example.com"]

NoGroupEnv == [k \in RequiredKeys \ {"USENET_GROUP"} |-> CompleteEnv[k]]

\* the credential file: absent, or present with these KEY=VALUE pairs
NoEnvFile == [exists |-> FALSE, vars |-> EmptyDict]
EnvFileOf(d) == [exists |-> TRUE, vars |-> d]
EnvFiles == {NoEnvFile, EnvFileOf(CompleteEnv), EnvFileOf(DefaultHostEnv), EnvFileOf(NoGroupEnv)}

\* what the user types at the prompt: every field filled, or every field left empty
PromptKeys == RequiredKeys \cup {"NNTP_SSL", "NNTP_CONNECTIONS", "ARTICLE_SIZE"}
PromptDefaults(k, typed) ==
    CASE k = "NNTP_SSL" -> "true"
      [] k = "NNTP_CONNECTIONS" -> "50"
      [] k = "ARTICLE_SIZE" -> "700K"
      [] OTHER -> typed
PromptInputs == {"", "typed"}

\* dict.get(key) with None and "" both falsy
Get(d, k) == IF k \in DOMAIN d THEN d[k] ELSE ""

\* load_env_file
load_env_file(file) == IF file.exists THEN file.vars ELSE EmptyDict

\* prompt_for_credentials: the dict it returns (and writes to env_file)
prompt_for_credentials(typed) == [k \in PromptKeys |-> PromptDefaults(k, typed)]

\* check_or_prompt_credentials: TRUE when it has to prompt
NeedsPrompt(env) ==
    \/ \E k \in RequiredKeys : Get(env, k) = ""
    \/ Get(env, "NNTP_HOST") = "news.example.com"
    \/ Get(env, "NNTP_USER") = "seu_usuario"

(* ---------------------- upload progress parser ------------------------ *)

\* largest article count / article index written in an output line
MaxNum == 2
\* the clock (time.time()) runs from 1 to MaxTime
MaxTime == 2
\* calls of parse_line in one stage run
MaxCalls == 3

\* parse_line, pattern 5: "total < 10000"
SanityCeiling == 10000

\* A line is a sequence of tokens, written with single spaces between them,
\* except that "/" is written without spaces around it, "%" directly after the
\* token before it and "(" directly before the token after it.
\* A token is a word, a decimal integer numeral (w = "#", n its value) or the
\* malformed numeral "1..2" (matched by [\d.]+, not by \d+(\.\d+)?).
Num(n) == [w |-> "#", n |-> n]
W(word) == [w |-> word, n |-> 0]
BadNumeral == W("1..2")

\* the token is \d+
IsNum(t) == t.w = "#"
\* the token ends with \d+ (a match may start inside the token): its value
EndsInDigits(t) == t.w \in {"#", "1..2"}
TailNum(t) == IF t.w = "#" THEN t.n ELSE 2
\* the token starts with \d+: its value
StartsWithDigits(t) == t.w \in {"#", "1..2"}
HeadNum(t) == IF t.w = "#" THEN t.n ELSE 1
\* the token is [\d.]+ ; float() accepts it
IsDotted(t) == t.w \in {"#", "1..2"}
FloatOk(t) == t.w = "#"
\* the token starts with "MiB"
StartsWithMiB(t) == t.w \in {"MiB", "MiB/s)"}
\* articles? (case-insensitive) occurs in the token
ContainsArticle(t) == t.w \in {"article", "articles", "article(s)"}

Tok(l, i) == IF i \in 1..Len(l) THEN l[i] ELSE W("")
Least(S) == CHOOSE i \in S : \A j \in S : i <= j

NoMatch == [found |-> FALSE, g1 |-> 0, g2 |-> 0, ok1 |-> TRUE, ok2 |-> TRUE]
Found(a, b) == [found |-> TRUE, g1 |-> a, g2 |-> b, ok1 |-> TRUE, ok2 |-> TRUE]

\* r"Uploading (\d+) article\(s\).*?(\d+(?:\.\d+)?) MiB"
Match1(l) ==
    LET size(i) == {j \in (i + 3)..Len(l) :
                        EndsInDigits(l[j]) /\ StartsWithMiB(Tok(l, j + 1))}
        at == {i \in 1..Len(l) :
                  /\ l[i].w = "Uploading" /\ IsNum(Tok(l, i + 1))
                  /\ Tok(l, i + 2).w = "article(s)" /\ size(i) # {}}
    IN  IF at = {} THEN NoMatch
        ELSE Found(l[Least(at) + 1].n, TailNum(l[Least(size(Least(at)))]))

\* r"Uploaded (\d+)/(\d+) articles"
Match2(l) ==
    LET at == {i \in 1..Len(l) :
                  /\ l[i].w = "Uploaded" /\ IsNum(Tok(l, i + 1)) /\ Tok(l, i + 2).w = "/"
                  /\ IsNum(Tok(l, i + 3)) /\ Tok(l, i + 4).w = "articles"}
    IN  IF at = {} THEN NoMatch ELSE Found(l[Least(at) + 1].n, l[Least(at) + 3].n)

\* r"(\d+)\s*(?:/|of)\s*(\d+).*?articles?", re.IGNORECASE
Match3(l) ==
    LET at == {i \in 1..Len(l) :
                  /\ EndsInDigits(l[i]) /\ Tok(l, i + 1).w \in {"/", "of"}
                  /\ StartsWithDigits(Tok(l, i + 2))
                  /\ \E k \in (i + 3)..Len(l) : ContainsArticle(l[k])}
    IN  IF at = {} THEN NoMatch
        ELSE Found(TailNum(l[Least(at)]), HeadNum(l[Least(at) + 2]))

\* r"(?:sending\s+)?article\s+(\d+)\s+of\s+(\d+)", re.IGNORECASE
Match4(l) ==
    LET at == {i \in 1..Len(l) :
                  /\ l[i].w = "article" /\ IsNum(Tok(l, i + 1)) /\ Tok(l, i + 2).w = "of"
                  /\ StartsWithDigits(Tok(l, i + 3))}
    IN  IF at = {} THEN NoMatch ELSE Found(l[Least(at) + 1].n, HeadNum(l[Least(at) + 3]))

\* r"(\d+)\s*/\s*(\d+)"
Match5(l) ==
    LET at == {i \in 1..Len(l) :
                  /\ EndsInDigits(l[i]) /\ Tok(l, i + 1).w = "/"
                  /\ StartsWithDigits(Tok(l, i + 2))}
    IN  IF at = {} THEN NoMatch
        ELSE Found(TailNum(l[Least(at)]), HeadNum(l[Least(at) + 2]))

\* any(word in line.lower() for word in ["file", "files", "mb", "mib", "kb", "kib"])
HasSizeKeyword(l) ==
    \E i \in 1..Len(l) : l[i].w \in {"file", "files", "file(s)", "MiB", "MiB/s)"}

\* r"(\d+(?:\.\d+)?)%"  (g1: the percentage)
Match6(l) ==
    LET at == {i \in 1..Len(l) : EndsInDigits(l[i]) /\ Tok(l, i + 1).w = "%"}
    IN  IF at = {} THEN NoMatch ELSE Found(TailNum(l[Least(at)]), 0)

\* r"(\d+)\s+articles?\s+sent", re.IGNORECASE
Match7(l) ==
    LET at == {i \in 1..Len(l) :
                  /\ EndsInDigits(l[i]) /\ Tok(l, i + 1).w \in {"article", "articles"}
                  /\ Tok(l, i + 2).w = "sent"}
    IN  IF at = {} THEN NoMatch ELSE Found(TailNum(l[Least(at)]), 0)

\* r"(?:sending|transfer)\s+(\d+)\s*/\s*(\d+)", re.IGNORECASE
Match8(l) ==
    LET at == {i \in 1..Len(l) :
                  /\ l[i].w \in {"sending", "transfer"} /\ IsNum(Tok(l, i + 1))
                  /\ Tok(l, i + 2).w = "/" /\ StartsWithDigits(Tok(l, i + 3))}
    IN  IF at = {} THEN NoMatch ELSE Found(l[Least(at) + 1].n, HeadNum(l[Least(at) + 3]))

\* r"Finished uploading ([\d.]+) MiB.*?\(([\d.]+) MiB/s\)"
\* ok1, ok2: float() accepts group 1, group 2
Match9(l) ==
    LET rate(i) == {k \in (i + 4)..Len(l) :
                        /\ l[k].w = "(" /\ IsDotted(Tok(l, k + 1))
                        /\ Tok(l, k + 2).w = "MiB/s)"}
        at == {i \in 1..Len(l) :
                  /\ l[i].w = "Finished" /\ Tok(l, i + 1).w = "uploading"
                  /\ IsDotted(Tok(l, i + 2)) /\ StartsWithMiB(Tok(l, i + 3))
                  /\ rate(i) # {}}
    IN  IF at = {} THEN NoMatch
        ELSE LET i == Least(at)
                 k == Least(rate(i))
             IN  [found |-> TRUE, g1 |-> l[i + 2].n, g2 |-> l[k + 1].n,
                  ok1 |-> FloatOk(l[i + 2]), ok2 |-> FloatOk(l[k + 1])]

\* optional values: None for integers, for fractions and for the info text
None == -1
NoneR == [num |-> 0, den |-> 0]
Frac(a, b) == [num |-> a, den |-> b]
NoInfo == [kind |-> "none", a |-> 0, b |-> 0]
\* Python truthiness: "if x" / "not x"
Truthy(x) == x # None /\ x # 0
Falsy(r) == r = NoneR \/ r.num = 0

\* int(a / b) for b > 0: truncation toward zero
Trunc(a, b) == IF a >= 0 THEN a \div b ELSE -((-a) \div b)

\* the block shared by patterns 2, 3, 4, 5, 7 and 8 (e.g. lines 136-144)
Timed(c, current, total, t) ==
    IF Truthy(c.start_time) /\ t - c.start_time > 0
    THEN [c EXCEPT !.progress = Frac(current, total),
                   !.speed = Frac(current, t - c.start_time),
                   !.eta = IF current > 0
                           THEN Trunc((total - current) * (t - c.start_time), current)
                           ELSE 0]
    ELSE c

\* pattern 1, lines 98-109
Rule1(c, l, t) ==
    LET m == Match1(l) IN
    IF m.found
    THEN [c EXCEPT !.total_articles = m.g1, !.total_size = m.g2, !.start_time = t,
                   !.info = [kind |-> "total", a |-> m.g1, b |-> m.g2]]
    ELSE c

\* pattern 2, lines 111-126
Rule2(c, l, t) ==
    LET m == Match2(l) IN
    IF m.found
    THEN LET c1 == [c EXCEPT !.uploaded_articles = m.g1] IN
         IF m.g2 > 0 THEN Timed(c1, m.g1, m.g2, t) ELSE c1
    ELSE c

\* the body of patterns 3, 4, 5 and 8 once the line matched and total passed
\* its check (e.g. lines 134-144)
SetCounts(c, m, t) ==
    Timed([c EXCEPT !.uploaded_articles = m.g1, !.total_articles = m.g2], m.g1, m.g2, t)

\* pattern 3, lines 128-146
Rule3(c, l, t) ==
    LET m == Match3(l) IN
    IF m.found /\ Falsy(c.progress) /\ m.g2 > 0 THEN SetCounts(c, m, t) ELSE c

\* pattern 4, lines 148-166
Rule4(c, l, t) ==
    LET m == Match4(l) IN
    IF m.found /\ Falsy(c.progress) /\ m.g2 > 0 THEN SetCounts(c, m, t) ELSE c

\* pattern 5 without the keyword test of line 170
Rule5_noKeywordGuard(c, l, t) ==
    LET m == Match5(l) IN
    IF m.found /\ Falsy(c.progress) /\ m.g2 > 0 /\ m.g2 < SanityCeiling
    THEN SetCounts(c, m, t)
    ELSE c

\* pattern 5, lines 168-186
Rule5(c, l, t) ==
    LET m == Match5(l) IN
    IF m.found /\ Falsy(c.progress) /\ ~HasSizeKeyword(l)
           /\ m.g2 > 0 /\ m.g2 < SanityCeiling
    THEN SetCounts(c, m, t)
    ELSE c

\* pattern 6 with the "%" missing from its regular expression: r"(\d+(?:\.\d+)?)"
Rule6_noPercentSign(c, l, t) ==
    LET at == {i \in 1..Len(l) : EndsInDigits(l[i])}
        pct == IF at = {} THEN 0 ELSE TailNum(l[Least(at)])
    IN
    IF at # {} /\ Falsy(c.progress) /\ 0 <= pct /\ pct <= 100
    THEN LET c1 == [c EXCEPT !.progress = Frac(pct, 100)] IN
         IF Truthy(c.start_time) /\ t - c.start_time > 0 /\ pct > 0
         THEN [c1 EXCEPT !.speed = Frac(pct, t - c.start_time),
                         !.eta = Trunc((100 - pct) * (t - c.start_time), pct)]
         ELSE c1
    ELSE c

\* pattern 6 without the range test of line 192
Rule6_noRangeCheck(c, l, t) ==
    LET m == Match6(l) IN
    IF m.found /\ Falsy(c.progress)
    THEN LET c1 == [c EXCEPT !.progress = Frac(m.g1, 100)] IN
         IF Truthy(c.start_time) /\ t - c.start_time > 0 /\ m.g1 > 0
         THEN [c1 EXCEPT !.speed = Frac(m.g1, t - c.start_time),
                         !.eta = Trunc((100 - m.g1) * (t - c.start_time), m.g1)]
         ELSE c1
    ELSE c

\* pattern 6, lines 188-204
Rule6(c, l, t) ==
    LET m == Match6(l) IN
    IF m.found /\ Falsy(c.progress) /\ 0 <= m.g1 /\ m.g1 <= 100
    THEN LET c1 == [c EXCEPT !.progress = Frac(m.g1, 100)] IN
         IF Truthy(c.start_time) /\ t - c.start_time > 0 /\ m.g1 > 0
         THEN [c1 EXCEPT !.speed = Frac(m.g1, t - c.start_time),
                         !.eta = Trunc((100 - m.g1) * (t - c.start_time), m.g1)]
         ELSE c1
    ELSE c

\* pattern 7 that also takes a count equal to the recorded one
Rule7_acceptsDuplicates(c, l, t) ==
    LET m == Match7(l) IN
    IF m.found /\ Truthy(c.total_articles) /\ m.g1 >= c.uploaded_articles
    THEN Timed([c EXCEPT !.uploaded_articles = m.g1], m.g1, c.total_articles, t)
    ELSE c

\* pattern 7, lines 206-222
Rule7(c, l, t) ==
    LET m == Match7(l) IN
    IF m.found /\ Truthy(c.total_articles) /\ m.g1 > c.uploaded_articles
    THEN Timed([c EXCEPT !.uploaded_articles = m.g1], m.g1, c.total_articles, t)
    ELSE c

\* pattern 8, lines 224-242
Rule8(c, l, t) ==
    LET m == Match8(l) IN
    IF m.found /\ Falsy(c.progress) /\ m.g2 > 0 THEN SetCounts(c, m, t) ELSE c

\* pattern 9, lines 244-252; float() raises ValueError on a malformed numeral
Rule9(c, l, t) ==
    LET m == Match9(l) IN
    IF ~m.found THEN c
    ELSE IF ~m.ok1 THEN [c EXCEPT !.raised = TRUE]
    ELSE IF ~m.ok2 THEN [c EXCEPT !.uploaded_size = m.g1, !.raised = TRUE]
    ELSE [c EXCEPT !.uploaded_size = m.g1,
                   !.info = [kind |-> "done", a |-> m.g1, b |-> m.g2],
                   !.progress = Frac(1, 1)]

\* the patterns in the order parse_line applies them
ApplyRule(k, c, l, t) ==
    CASE k = 1 -> Rule1(c, l, t)
      [] k = 2 -> Rule2(c, l, t)
      [] k = 3 -> Rule3(c, l, t)
      [] k = 4 -> Rule4(c, l, t)
      [] k = 5 -> Rule5(c, l, t)
      [] k = 6 -> Rule6(c, l, t)
      [] k = 7 -> Rule7(c, l, t)
      [] k = 8 -> Rule8(c, l, t)
      [] OTHER -> Rule9(c, l, t)

RECURSIVE ApplyRules(_, _, _, _)
ApplyRules(k, c, l, t) ==
    IF k > 9 THEN c
    ELSE CHOOSE r \in {ApplyRules(k + 1, d, l, t) : d \in {ApplyRule(k, c, l, t)}} : TRUE

\* UploadProgressParser.parse_line: parser fields and the event's fields after
\* the call on line l at time t, from the parser fields p before it
parse_line(p, l, t) ==
    LET c0 == [total_articles |-> p.total_articles,
               uploaded_articles |-> p.uploaded_articles,
               total_size |-> p.total_size, uploaded_size |-> p.uploaded_size,
               start_time |-> p.start_time,
               info |-> NoInfo, progress |-> NoneR, speed |-> NoneR, eta |-> None,
               raised |-> FALSE]
    IN  ApplyRules(1, c0, l, t)

(* the lines fed to the parser *)

Nums == 0..MaxNum
Pairs == Nums \X Nums
\* pairs N, M with N <= M and M > 0
ValidPairs == {q \in Pairs : q[1] <= q[2] /\ q[2] > 0}

TotalsLine(n, sz) ==
    <<W("Uploading"), Num(n), W("article(s)"), W("from"), Num(1), W("file(s)"),
      W("totalling"), Num(sz), W("MiB")>>
UploadedLine(n, m) == <<W("Uploaded"), Num(n), W("/"), Num(m), W("articles")>>
OfArticlesLine(n, m) == <<Num(n), W("of"), Num(m), W("articles")>>
ArticleOfLine(n, m) == <<W("article"), Num(n), W("of"), Num(m)>>
BareLine(n, m) == <<Num(n), W("/"), Num(m)>>
SendingLine(n, m) == <<W("sending"), Num(n), W("/"), Num(m)>>
PercentLine(pct) == <<Num(pct), W("%")>>
SentLine(n) == <<Num(n), W("articles"), W("sent")>>
FinishedLine(x, y) ==
    <<W("Finished"), W("uploading"), x, W("MiB"), W("in"), W("00:00:01"),
      W("("), y, W("MiB/s)")>>

NoiseLines ==
    {<<W("noise")>>, <<W("ESC[0m"), W("noise"), W("ESC[K")>>,
     <<W("Reading"), W("file")>>, <<W("noise"), Num(1)>>}

CombinedLines ==
    {BareLine(0, 2) \o PercentLine(50),
     BareLine(1, 2) \o PercentLine(50),
     BareLine(1, 2) \o <<W("MiB")>>,
     BareLine(1, SanityCeiling),
     UploadedLine(0, 2) \o PercentLine(50),
     TotalsLine(2, 1) \o TotalsLine(1, 2),
     BareLine(1, 2) \o SentLine(2),
     FinishedLine(Num(1), Num(1)) \o BareLine(1, 2),
     BareLine(1, 2) \o FinishedLine(Num(1), Num(1))}

Lines ==
    {TotalsLine(n, sz) : n \in Nums, sz \in {1, 2}}
        \cup {UploadedLine(q[1], q[2]) : q \in Pairs}
        \cup {OfArticlesLine(q[1], q[2]) : q \in ValidPairs}
        \cup {ArticleOfLine(q[1], q[2]) : q \in ValidPairs}
        \cup {BareLine(q[1], q[2]) : q \in Pairs}
        \cup {SendingLine(q[1], q[2]) : q \in ValidPairs}
        \cup {PercentLine(pct) : pct \in {0, 50, 100, 150}}
        \cup {SentLine(n) : n \in Nums}
        \cup {FinishedLine(x, y) : x \in {Num(1), BadNumeral}, y \in {Num(1), BadNumeral}}
        \cup NoiseLines
        \cup CombinedLines

(* ------------------------------ state ---------------------------------- *)

VARIABLES
    \* UpaPastaOrchestrator fields (src/upapasta/main.py __init__)
    folder_name,      \* self.folder_path.name
    dry_run, skip_rar, skip_par, skip_upload, force, keep_files,
    group,            \* self.group: the --group argument, NoGroup when not given
    rar_file, par_file, env_vars,
    \* the environment
    folder_kind,      \* "dir", "file" or "absent": what folder_path is on disk
    fs,               \* the artifact files that exist in the parent directory
    env_file,         \* the credential file
    \* position in run() and its return value
    pc, rc,
    \* observations
    invoked,          \* how often each external tool was started
    written,          \* paths run() itself wrote
    deleted,          \* paths run() / cleanup() removed
    remove_failed,    \* paths whose os.remove raised in the last cleanup()
    reported,         \* the final report was printed
    cleanup_calls,    \* number of cleanup() calls so far
    last_deleted,     \* files removed by the most recent cleanup() call
    prev_failed,      \* remove_failed of the cleanup() call before the last one
    exits,            \* last outcome of each tool: NotRun, its exit status, or Raised
                      \* (an exception at spawn or while supervising it)
    stage,            \* what run() made of each stage: "pending", "ok" or "failed"
    active,           \* tools whose process was started and not waited for
    make_rar_call,    \* the last make_rar call: [rc, found] (what it returned, whether
                      \* find_rar found the executable), NoCall before any call
    upload_group,     \* the group the uploader posted to, NoGroup before any upload
    report_group,     \* display_group of the final report, NoGroup before it
    fs0,              \* the artifact files that existed when run() was called
    \* UploadProgressParser fields (src/main.py __init__)
    total_articles, uploaded_articles, total_size, uploaded_size, start_time,
    lines_processed,
    now,              \* time.time()
    calls,            \* parse_line calls so far
    result,           \* what the last parse_line call returned (or that it raised)
    \* one stage's process session (src/main.py run_makerar / run_makepar /
    \* run_upload, src/src/upapasta/main.py run_command_with_pty)
    session,          \* [stage, kind]: which stage, and how its tool is run
    debug,            \* self.debug
    proc,             \* the child: [alive, hangs, returncode, wrote]
    output,           \* the lines the child has written so far
    shown,            \* what the stage has printed of them, in order
    elapsed,          \* wall-clock time since the child was spawned
    spc,              \* position in the stage: "idle", "reading", "returned"
    success,          \* what the stage returned, once spc = "returned"
    progress_bar,     \* progress_bar.n, None while there is no bar
    progress_started, \* run_upload's progress_started
    killed,           \* the child was forcibly terminated
    \* deriving the artifact paths from the folder argument
    path_in,          \* the folder argument, relative to the working directory
    path_branch,      \* "reuse", "simulate" or "execute"
    path_rar,         \* self.rar_file
    path_par,         \* self.par_file
    path_out,         \* make_rar's out_rar
    path_pc,          \* "idle", "archive", "parity", "done"
    \* run_command_with_pty (src/src/upapasta/main.py)
    pty_pc,           \* "idle", "reading", "finally", "waiting", "returned"
    pty_child,        \* the child: [spawned, alive, stream, returncode]
    pty_master,       \* the master descriptor: "none", "open", "closed"
    pty_slave,        \* the parent's slave descriptor: "none", "open", "closed"
    pty_stop,         \* why the read loop ended: "none", "eof", "read_error", "write_error"
    pty_status,       \* ret_code of process.wait(), None before it
    pty_signal,       \* what the caller gets: "none", "returned", or the exception raised
    pty_chunks        \* chunks copied to stdout so far

flagVars == <<folder_name, dry_run, skip_rar, skip_par, skip_upload, force, keep_files, fs0, group>>
orchVars == <<rar_file, par_file, env_vars, folder_kind, fs, env_file, pc, rc,
              invoked, written, deleted, remove_failed, reported, cleanup_calls, last_deleted,
              prev_failed, exits, stage, active, make_rar_call, upload_group, report_group>>
parserVars == <<total_articles, uploaded_articles, total_size, uploaded_size, start_time,
                lines_processed, now, calls, result>>
sessVars == <<session, debug, proc, output, shown, elapsed, spc, success, progress_bar,
              progress_started, killed>>
pathVars == <<path_in, path_branch, path_rar, path_par, path_out, path_pc>>
ptyVars == <<pty_pc, pty_child, pty_master, pty_slave, pty_stop, pty_status, pty_signal,
             pty_chunks>>
vars == <<flagVars, orchVars, parserVars, sessVars, pathVars, ptyVars>>

Tools == {"archiver", "parity", "uploader"}
\* the stages of run(), in the order it enters them
Stages == {"archive", "parity", "upload"}
EnvPath == [stem |-> ".env", kind |-> "env", vol |-> 0]
\* rc before run() returns; a tool not started; a tool call that raised
NoRc == None
NotRun == None
Raised == None - 1
\* make_rar not called so far
NoCall == [rc |-> NoRc, found |-> FALSE]
\* self.group is None (or empty): no --group given
NoGroup == ""
Groups == {NoGroup, "alt.binaries.custom"}

\* files that may exist next to the input folder: its own artifacts, and the
\* archive of the other folder
InitialFiles(name) ==
    {S \cup D : S \in SUBSET ArtifactFiles(name),
                D \in {{}, {RarPath(CHOOSE o \in Folders : o # name)}}}

ObsInit ==
    /\ invoked = [t \in Tools |-> 0]
    /\ written = {}
    /\ deleted = {}
    /\ remove_failed = {}
    /\ reported = FALSE
    /\ cleanup_calls = 0
    /\ last_deleted = {}
    /\ prev_failed = {}
    /\ exits = [t \in Tools |-> NotRun]
    /\ stage = [g \in Stages |-> "pending"]
    /\ active = {}
    /\ make_rar_call = NoCall
    /\ upload_group = NoGroup
    /\ report_group = NoGroup

NoEvent == [raw |-> <<>>, info |-> NoInfo, progress |-> NoneR, speed |-> NoneR,
            eta |-> None, raised |-> FALSE]

\* no process session under way
NoSession == [stage |-> "none", kind |-> "none"]
NoProc == [alive |-> FALSE, hangs |-> FALSE, returncode |-> 0, wrote |-> FALSE]
SessionIdle ==
    /\ session = NoSession /\ debug = FALSE /\ proc = NoProc
    /\ output = <<>> /\ shown = <<>> /\ elapsed = 0 /\ spc = "idle" /\ success = FALSE
    /\ progress_bar = None /\ progress_started = FALSE /\ killed = FALSE

\* no path derivation under way
PathIdle ==
    /\ path_in = <<>> /\ path_branch = "none" /\ path_rar = <<>> /\ path_par = <<>>
    /\ path_out = <<>> /\ path_pc = "idle"

\* run_command_with_pty not called
NoChild == [spawned |-> FALSE, alive |-> FALSE, stream |-> "none", returncode |-> 0]
PtyIdle ==
    /\ pty_pc = "idle" /\ pty_child = NoChild /\ pty_master = "none" /\ pty_slave = "none"
    /\ pty_stop = "none" /\ pty_status = None /\ pty_signal = "none" /\ pty_chunks = 0

\* UploadProgressParser.__init__
ParserFresh ==
    /\ total_articles = None /\ uploaded_articles = 0
    /\ total_size = None /\ uploaded_size = 0
    /\ start_time = None /\ lines_processed = 0
    /\ now = 1 /\ calls = 0 /\ result = NoEvent

\* the state after UpaPastaOrchestrator(...) is constructed, run() not yet called
Init ==
    /\ ParserFresh
    /\ folder_name \in Folders
    /\ dry_run \in BOOLEAN /\ skip_rar \in BOOLEAN /\ skip_par \in BOOLEAN
    /\ skip_upload \in BOOLEAN /\ force \in BOOLEAN /\ keep_files \in BOOLEAN
    /\ group \in Groups
    /\ rar_file = NoPath /\ par_file = NoPath /\ env_vars = EmptyDict
    /\ folder_kind \in {"dir", "file", "absent"}
    /\ fs \in InitialFiles(folder_name)
    /\ fs0 = fs
    /\ env_file \in EnvFiles
    /\ pc = "creds" /\ rc = NoRc
    /\ ObsInit
    /\ SessionIdle
    /\ PathIdle
    /\ PtyIdle

\* a run() that, instead of returning, enters the same step again
Return_retries(code) == /\ pc' = pc /\ rc' = rc

Return(code) == /\ pc' = "done" /\ rc' = code

(* ------------------------- run(): credentials -------------------------- *)

\* run() lines 360-364: check_or_prompt_credentials unless --skip-upload
CheckCredentials ==
    /\ pc = "creds"
    /\ IF skip_upload
       THEN /\ pc' = "validate"
            /\ UNCHANGED <<env_vars, env_file, written, rc>>
       ELSE \E typed \in PromptInputs :
            LET loaded == load_env_file(env_file)
                prompts == NeedsPrompt(loaded)
                creds == IF prompts THEN prompt_for_credentials(typed) ELSE loaded
            IN  /\ env_vars' = creds
                /\ env_file' = IF prompts THEN EnvFileOf(creds) ELSE env_file
                /\ written' = IF prompts THEN written \cup {EnvPath} ELSE written
                /\ IF creds = EmptyDict
                   THEN Return(3)
                   ELSE pc' = "validate" /\ rc' = rc
    /\ UNCHANGED <<flagVars, parserVars, sessVars, pathVars, ptyVars, make_rar_call, upload_group, report_group, rar_file, par_file, folder_kind, fs, invoked, deleted,
                   remove_failed, reported, cleanup_calls, last_deleted, prev_failed, exits, stage, active>>

(* --------------------------- run(): validate --------------------------- *)

\* UpaPastaOrchestrator.validate
validate(kind) == kind = "dir"

Validate ==
    /\ pc = "validate"
    /\ IF validate(folder_kind) THEN pc' = "makerar" /\ rc' = rc ELSE Return(1)
    /\ UNCHANGED <<flagVars, parserVars, sessVars, pathVars, ptyVars, make_rar_call, upload_group, report_group, rar_file, par_file, env_vars, folder_kind, fs, env_file,
                   invoked, written, deleted, remove_failed, reported, cleanup_calls,
                   last_deleted, prev_failed, exits, stage, active>>

(* ------------------------ run(): stage exit codes ---------------------- *)

\* an exit code table in which a parity failure is reported as an archive failure
StageExit_parityAsArchive(g) ==
    CASE g = "archive" -> 1
      [] g = "parity" -> 1
      [] g = "upload" -> 3

\* what run() returns when run_makerar / run_makepar / run_upload returns False
StageExit(g) ==
    CASE g = "archive" -> 1
      [] g = "parity" -> 2
      [] g = "upload" -> 3

(* --------------------------- stage 1: archive -------------------------- *)

\* What the rar process does once started: its exit status and whether the
\* archive file is on disk afterwards; or the spawn itself fails (Popen raises).
\* loop_raises: an exception in the output read loop (lines 86-109), before
\* proc.wait() is reached.
ArchiverOutcomes ==
    {[spawned |-> TRUE, loop_raises |-> FALSE, exit |-> e, wrote |-> w] :
        e \in {0, 1}, w \in BOOLEAN}
        \cup {[spawned |-> TRUE, loop_raises |-> TRUE, exit |-> 1, wrote |-> w] : w \in BOOLEAN}
        \cup {[spawned |-> FALSE, loop_raises |-> FALSE, exit |-> 1, wrote |-> FALSE]}

\* make_rar that returns 0 when its read loop raised, the rar process not waited for
make_rar_loopErrorIsSuccess(kind, name, frc, files, installed, out) ==
    LET out_rar == RarPath(name)
        after == IF out.wrote THEN files \cup {out_rar} ELSE files IN
    IF kind # "dir" THEN [rc |-> 2, started |-> FALSE, waited |-> FALSE, raised |-> FALSE, files |-> files]
    ELSE IF out_rar \in files /\ ~frc
    THEN [rc |-> 3, started |-> FALSE, waited |-> FALSE, raised |-> FALSE, files |-> files]
    ELSE IF ~installed THEN [rc |-> 4, started |-> FALSE, waited |-> FALSE, raised |-> FALSE, files |-> files]
    ELSE IF ~out.spawned
    THEN [rc |-> 5, started |-> FALSE, waited |-> FALSE, raised |-> TRUE, files |-> files]
    ELSE IF out.loop_raises
    THEN [rc |-> 0, started |-> TRUE, waited |-> FALSE, raised |-> TRUE, files |-> after]
    ELSE [rc |-> IF out.exit = 0 THEN 0 ELSE 5, started |-> TRUE, waited |-> TRUE,
          raised |-> FALSE, files |-> after]

\* make_rar that does not look for an existing archive before starting rar
make_rar_overwritesUnforced(kind, name, frc, files, installed, out) ==
    LET out_rar == RarPath(name)
        after == IF out.wrote THEN files \cup {out_rar} ELSE files IN
    IF kind # "dir" THEN [rc |-> 2, started |-> FALSE, waited |-> FALSE, raised |-> FALSE, files |-> files]
    ELSE IF ~installed THEN [rc |-> 4, started |-> FALSE, waited |-> FALSE, raised |-> FALSE, files |-> files]
    ELSE IF ~out.spawned
    THEN [rc |-> 5, started |-> FALSE, waited |-> FALSE, raised |-> TRUE, files |-> files]
    ELSE IF out.loop_raises
    THEN [rc |-> 5, started |-> TRUE, waited |-> FALSE, raised |-> TRUE, files |-> after]
    ELSE [rc |-> IF out.exit = 0 THEN 0 ELSE 5, started |-> TRUE, waited |-> TRUE,
          raised |-> FALSE, files |-> after]

\* make_rar(folder_path, force): return code, whether rar was started, whether
\* proc.wait() collected its exit status, files after
make_rar(kind, name, frc, files, installed, out) ==
    LET out_rar == RarPath(name)
        after == IF out.wrote THEN files \cup {out_rar} ELSE files IN
    IF kind # "dir" THEN [rc |-> 2, started |-> FALSE, waited |-> FALSE, raised |-> FALSE, files |-> files]
    ELSE IF out_rar \in files /\ ~frc
    THEN [rc |-> 3, started |-> FALSE, waited |-> FALSE, raised |-> FALSE, files |-> files]
    ELSE IF ~installed THEN [rc |-> 4, started |-> FALSE, waited |-> FALSE, raised |-> FALSE, files |-> files]
    ELSE IF ~out.spawned
    THEN [rc |-> 5, started |-> FALSE, waited |-> FALSE, raised |-> TRUE, files |-> files]
    ELSE IF out.loop_raises
    THEN [rc |-> 5, started |-> TRUE, waited |-> FALSE, raised |-> TRUE, files |-> after]
    ELSE [rc |-> IF out.exit = 0 THEN 0 ELSE 5, started |-> TRUE, waited |-> TRUE,
          raised |-> FALSE, files |-> after]
\* run_makerar with the dry-run branch missing: dry-run falls through to make_rar
run_makerar_noDryRunBranch(installed, out) ==
    LET potential_rar == RarPath(folder_name) IN
    IF skip_rar
    THEN IF potential_rar \in fs
         THEN [ok |-> TRUE, rar_file |-> potential_rar, files |-> fs, started |-> FALSE,
          waited |-> FALSE, raised |-> FALSE]
         ELSE [ok |-> FALSE, rar_file |-> rar_file, files |-> fs, started |-> FALSE,
          waited |-> FALSE, raised |-> FALSE]
    ELSE LET r == make_rar(folder_kind, folder_name, force, fs, installed, out) IN
         IF r.rc = 0
         THEN [ok |-> potential_rar \in r.files, rar_file |-> potential_rar,
               files |-> r.files, started |-> r.started, waited |-> r.waited, raised |-> r.raised]
         ELSE [ok |-> FALSE, rar_file |-> rar_file, files |-> r.files, started |-> r.started,
               waited |-> r.waited, raised |-> r.raised]

\* run_makerar where --skip-rar with a missing archive falls through to make_rar
run_makerar_skipFallsThrough(installed, out) ==
    LET potential_rar == RarPath(folder_name) IN
    IF skip_rar /\ potential_rar \in fs
    THEN [ok |-> TRUE, rar_file |-> potential_rar, files |-> fs, started |-> FALSE,
          waited |-> FALSE, raised |-> FALSE]
    ELSE IF dry_run
    THEN [ok |-> TRUE, rar_file |-> potential_rar, files |-> fs, started |-> FALSE,
          waited |-> FALSE, raised |-> FALSE]
    ELSE LET r == make_rar(folder_kind, folder_name, force, fs, installed, out) IN
         IF r.rc = 0
         THEN [ok |-> potential_rar \in r.files, rar_file |-> potential_rar,
               files |-> r.files, started |-> r.started, waited |-> r.waited, raised |-> r.raised]
         ELSE [ok |-> FALSE, rar_file |-> rar_file, files |-> r.files, started |-> r.started,
               waited |-> r.waited, raised |-> r.raised]

\* run_makerar that trusts make_rar's return code without looking for the archive
run_makerar_noExistsCheck(installed, out) ==
    LET potential_rar == RarPath(folder_name) IN
    IF skip_rar
    THEN IF potential_rar \in fs
         THEN [ok |-> TRUE, rar_file |-> potential_rar, files |-> fs, started |-> FALSE,
               waited |-> FALSE, raised |-> FALSE]
         ELSE [ok |-> FALSE, rar_file |-> rar_file, files |-> fs, started |-> FALSE,
               waited |-> FALSE, raised |-> FALSE]
    ELSE IF dry_run
    THEN [ok |-> TRUE, rar_file |-> potential_rar, files |-> fs, started |-> FALSE,
          waited |-> FALSE, raised |-> FALSE]
    ELSE LET r == make_rar(folder_kind, folder_name, force, fs, installed, out) IN
         IF r.rc = 0
         THEN [ok |-> TRUE, rar_file |-> potential_rar,
               files |-> r.files, started |-> r.started, waited |-> r.waited, raised |-> r.raised]
         ELSE [ok |-> FALSE, rar_file |-> rar_file, files |-> r.files, started |-> r.started,
               waited |-> r.waited, raised |-> r.raised]

\* run_makerar that tests dry_run before skip_rar
run_makerar_dryRunFirst(installed, out) ==
    LET potential_rar == RarPath(folder_name) IN
    IF dry_run
    THEN [ok |-> TRUE, rar_file |-> potential_rar, files |-> fs, started |-> FALSE,
          waited |-> FALSE, raised |-> FALSE]
    ELSE IF skip_rar
    THEN IF potential_rar \in fs
         THEN [ok |-> TRUE, rar_file |-> potential_rar, files |-> fs, started |-> FALSE,
               waited |-> FALSE, raised |-> FALSE]
         ELSE [ok |-> FALSE, rar_file |-> rar_file, files |-> fs, started |-> FALSE,
               waited |-> FALSE, raised |-> FALSE]
    ELSE LET r == make_rar(folder_kind, folder_name, force, fs, installed, out) IN
         IF r.rc = 0
         THEN [ok |-> potential_rar \in r.files, rar_file |-> potential_rar,
               files |-> r.files, started |-> r.started, waited |-> r.waited, raised |-> r.raised]
         ELSE [ok |-> FALSE, rar_file |-> rar_file, files |-> r.files, started |-> r.started,
               waited |-> r.waited, raised |-> r.raised]

\* UpaPastaOrchestrator.run_makerar: [ok, rar_file, files, started, waited, raised]
run_makerar(installed, out) ==
    LET potential_rar == RarPath(folder_name) IN
    IF skip_rar
    THEN IF potential_rar \in fs
         THEN [ok |-> TRUE, rar_file |-> potential_rar, files |-> fs, started |-> FALSE,
          waited |-> FALSE, raised |-> FALSE]
         ELSE [ok |-> FALSE, rar_file |-> rar_file, files |-> fs, started |-> FALSE,
          waited |-> FALSE, raised |-> FALSE]
    ELSE IF dry_run
    THEN [ok |-> TRUE, rar_file |-> potential_rar, files |-> fs, started |-> FALSE,
          waited |-> FALSE, raised |-> FALSE]
    ELSE LET r == make_rar(folder_kind, folder_name, force, fs, installed, out) IN
         IF r.rc = 0
         THEN [ok |-> potential_rar \in r.files, rar_file |-> potential_rar,
               files |-> r.files, started |-> r.started, waited |-> r.waited, raised |-> r.raised]
         ELSE [ok |-> FALSE, rar_file |-> rar_file, files |-> r.files, started |-> r.started,
               waited |-> r.waited, raised |-> r.raised]

\* run() lines 381-389
RunMakerar ==
    /\ pc = "makerar"
    /\ \E installed \in BOOLEAN, out \in ArchiverOutcomes :
        LET r == run_makerar(installed, out) IN
        /\ rar_file' = r.rar_file
        /\ fs' = r.files
        /\ invoked' = IF r.started THEN [invoked EXCEPT !["archiver"] = @ + 1] ELSE invoked
        /\ exits' = IF r.raised THEN [exits EXCEPT !["archiver"] = Raised]
                    ELSE IF r.started THEN [exits EXCEPT !["archiver"] = out.exit]
                    ELSE exits
        /\ active' = IF r.started /\ ~r.waited THEN active \cup {"archiver"} ELSE active
        /\ stage' = [stage EXCEPT !["archive"] = IF r.ok THEN "ok" ELSE "failed"]
        /\ make_rar_call' = IF skip_rar \/ dry_run
                            THEN make_rar_call
                            ELSE [rc |-> make_rar(folder_kind, folder_name, force, fs,
                                                  installed, out).rc,
                                  found |-> installed]
        /\ IF r.ok THEN pc' = "makepar" /\ rc' = rc ELSE Return(StageExit("archive"))
    /\ UNCHANGED <<flagVars, parserVars, sessVars, pathVars, ptyVars, upload_group, report_group, par_file, env_vars, folder_kind, env_file, written, deleted,
                   remove_failed, reported, cleanup_calls, last_deleted, prev_failed>>

(* --------------------------- stage 2: parity --------------------------- *)

\* make_parity (makepar.py): exit status and the parity files it leaves on
\* disk, or an exception
\* (abandoned: it raised with its child process still running)
ParityOutcomes(base) ==
    {[raised |-> FALSE, abandoned |-> FALSE, exit |-> e, created |-> c] :
        e \in {0, 1}, c \in SUBSET ParityFiles(base)}
        \cup {[raised |-> TRUE, abandoned |-> a, exit |-> 1, created |-> {}] : a \in BOOLEAN}

make_parity(files, out) ==
    [rc |-> out.exit, raised |-> out.raised, files |-> files \cup out.created]
\* run_makepar that only checks for the parity file, not make_parity's return code
run_makepar_ignoresExit(out) ==
    IF rar_file = NoPath
    THEN [ok |-> FALSE, par_file |-> par_file, files |-> fs, started |-> FALSE]
    ELSE LET par_path == ParPath(rar_file) IN
         IF skip_par
         THEN IF par_path \in fs
              THEN [ok |-> TRUE, par_file |-> par_path, files |-> fs, started |-> FALSE]
              ELSE [ok |-> FALSE, par_file |-> par_file, files |-> fs, started |-> FALSE]
         ELSE IF dry_run
         THEN [ok |-> TRUE, par_file |-> par_path, files |-> fs, started |-> FALSE]
         ELSE LET r == make_parity(fs, out) IN
              IF r.raised
              THEN [ok |-> FALSE, par_file |-> par_file, files |-> r.files, started |-> TRUE]
              ELSE [ok |-> par_path \in r.files, par_file |-> par_path,
                    files |-> r.files, started |-> TRUE]

\* run_makepar where --skip-par succeeds without looking for the parity file
run_makepar_skipAlwaysOk(out) ==
    IF rar_file = NoPath
    THEN [ok |-> FALSE, par_file |-> par_file, files |-> fs, started |-> FALSE]
    ELSE LET par_path == ParPath(rar_file) IN
         IF skip_par
         THEN [ok |-> TRUE, par_file |-> par_path, files |-> fs, started |-> FALSE]
         ELSE IF dry_run
         THEN [ok |-> TRUE, par_file |-> par_path, files |-> fs, started |-> FALSE]
         ELSE LET r == make_parity(fs, out) IN
              IF r.raised
              THEN [ok |-> FALSE, par_file |-> par_file, files |-> r.files, started |-> TRUE]
              ELSE IF r.rc = 0
              THEN [ok |-> par_path \in r.files, par_file |-> par_path,
                    files |-> r.files, started |-> TRUE]
              ELSE [ok |-> FALSE, par_file |-> par_file, files |-> r.files, started |-> TRUE]

\* run_makepar that trusts make_parity's return code without looking for the file
run_makepar_noExistsCheck(out) ==
    IF rar_file = NoPath
    THEN [ok |-> FALSE, par_file |-> par_file, files |-> fs, started |-> FALSE]
    ELSE LET par_path == ParPath(rar_file) IN
         IF skip_par
         THEN IF par_path \in fs
              THEN [ok |-> TRUE, par_file |-> par_path, files |-> fs, started |-> FALSE]
              ELSE [ok |-> FALSE, par_file |-> par_file, files |-> fs, started |-> FALSE]
         ELSE IF dry_run
         THEN [ok |-> TRUE, par_file |-> par_path, files |-> fs, started |-> FALSE]
         ELSE LET r == make_parity(fs, out) IN
              IF r.raised
              THEN [ok |-> FALSE, par_file |-> par_file, files |-> r.files, started |-> TRUE]
              ELSE IF r.rc = 0
              THEN [ok |-> TRUE, par_file |-> par_path, files |-> r.files, started |-> TRUE]
              ELSE [ok |-> FALSE, par_file |-> par_file, files |-> r.files, started |-> TRUE]

\* UpaPastaOrchestrator.run_makepar: [ok, par_file, files, started]
run_makepar(out) ==
    IF rar_file = NoPath
    THEN [ok |-> FALSE, par_file |-> par_file, files |-> fs, started |-> FALSE]
    ELSE LET par_path == ParPath(rar_file) IN
         IF skip_par
         THEN IF par_path \in fs
              THEN [ok |-> TRUE, par_file |-> par_path, files |-> fs, started |-> FALSE]
              ELSE [ok |-> FALSE, par_file |-> par_file, files |-> fs, started |-> FALSE]
         ELSE IF dry_run
         THEN [ok |-> TRUE, par_file |-> par_path, files |-> fs, started |-> FALSE]
         ELSE LET r == make_parity(fs, out) IN
              IF r.raised
              THEN [ok |-> FALSE, par_file |-> par_file, files |-> r.files, started |-> TRUE]
              ELSE IF r.rc = 0
              THEN [ok |-> par_path \in r.files, par_file |-> par_path,
                    files |-> r.files, started |-> TRUE]
              ELSE [ok |-> FALSE, par_file |-> par_file, files |-> r.files, started |-> TRUE]

\* run() that enters the upload stage whatever --skip-upload says
AfterParity_alwaysUpload == "upload"

\* run() lines 413-421: where run() goes after the parity stage
AfterParity == IF skip_upload THEN "report" ELSE "upload"

\* run() lines 391-399
RunMakepar ==
    /\ pc = "makepar"
    /\ \E out \in ParityOutcomes(Splitext0(RarPath(folder_name))) :
        LET r == run_makepar(out) IN
        /\ par_file' = r.par_file
        /\ fs' = r.files
        /\ invoked' = IF r.started THEN [invoked EXCEPT !["parity"] = @ + 1] ELSE invoked
        /\ exits' = IF r.started
                    THEN [exits EXCEPT !["parity"] = IF out.raised THEN Raised ELSE out.exit]
                    ELSE exits
        /\ stage' = [stage EXCEPT !["parity"] = IF r.ok THEN "ok" ELSE "failed"]
        /\ IF r.ok
           THEN pc' = AfterParity /\ rc' = rc
           ELSE Return(StageExit("parity"))
        /\ active' = IF r.started /\ out.abandoned THEN active \cup {"parity"} ELSE active
    /\ UNCHANGED <<flagVars, parserVars, sessVars, pathVars, ptyVars, make_rar_call, upload_group, report_group, rar_file, env_vars, folder_kind, env_file, written, deleted,
                   remove_failed, reported, cleanup_calls, last_deleted, prev_failed>>

(* --------------------------- stage 3: upload --------------------------- *)

\* upload_to_usenet (upfolder.py): exit status, or an exception
\* (abandoned: it raised with its child process still running)
UploadOutcomes ==
    {[raised |-> FALSE, abandoned |-> FALSE, exit |-> e] : e \in {0, 1}}
        \cup {[raised |-> TRUE, abandoned |-> a, exit |-> 1] : a \in BOOLEAN}

\* self.env_vars.get("USENET_GROUP"); None and "" are the same to 'or'
EnvGroup(env) == IF "USENET_GROUP" \in DOMAIN env THEN env["USENET_GROUP"] ELSE NoGroup

\* upload_to_usenet (upfolder.py): the group it posts to, given group= and env_vars=
upload_destination(g, env) == IF g # NoGroup THEN g ELSE EnvGroup(env)

\* run_upload without its dry-run branch
run_upload_noDryRunBranch(out) ==
    IF rar_file = NoPath THEN [ok |-> FALSE, started |-> FALSE]
    ELSE IF out.raised THEN [ok |-> FALSE, started |-> TRUE]
    ELSE [ok |-> out.exit = 0, started |-> TRUE]

\* run_upload without the except clause turning an exception into False
run_upload_raisedIsSuccess(out) ==
    IF rar_file = NoPath THEN [ok |-> FALSE, started |-> FALSE]
    ELSE IF dry_run THEN [ok |-> TRUE, started |-> FALSE]
    ELSE IF out.raised THEN [ok |-> TRUE, started |-> TRUE]
    ELSE [ok |-> out.exit = 0, started |-> TRUE]

\* UpaPastaOrchestrator.run_upload: [ok, started]
run_upload(out) ==
    IF rar_file = NoPath THEN [ok |-> FALSE, started |-> FALSE]
    ELSE IF dry_run THEN [ok |-> TRUE, started |-> FALSE]
    ELSE IF out.raised THEN [ok |-> FALSE, started |-> TRUE]
    ELSE [ok |-> out.exit = 0, started |-> TRUE]

\* run() that removes the archive and the parity base before it looks at what
\* run_upload returned
RunUpload_cleansUpBeforeCheck ==
    /\ pc = "upload"
    /\ \E out \in UploadOutcomes :
        LET r == run_upload(out)
            removed == IF keep_files THEN {} ELSE {rar_file, par_file} \cap fs
        IN
        /\ invoked' = IF r.started THEN [invoked EXCEPT !["uploader"] = @ + 1] ELSE invoked
        /\ exits' = IF r.started
                    THEN [exits EXCEPT !["uploader"] = IF out.raised THEN Raised ELSE out.exit]
                    ELSE exits
        /\ stage' = [stage EXCEPT !["upload"] = IF r.ok THEN "ok" ELSE "failed"]
        /\ upload_group' = IF r.started THEN upload_destination(group, env_vars) ELSE upload_group
        /\ fs' = fs \ removed
        /\ deleted' = deleted \cup removed
        /\ IF r.ok THEN pc' = "cleanup" /\ rc' = rc ELSE Return(StageExit("upload"))
        /\ active' = IF r.started /\ out.abandoned THEN active \cup {"uploader"} ELSE active
    /\ UNCHANGED <<flagVars, parserVars, sessVars, pathVars, ptyVars, make_rar_call, report_group, rar_file, par_file, env_vars, folder_kind, env_file, written,
                   remove_failed, reported, cleanup_calls, last_deleted, prev_failed>>

\* run() lines 412-417
RunUpload ==
    /\ pc = "upload"
    /\ \E out \in UploadOutcomes :
        LET r == run_upload(out) IN
        /\ invoked' = IF r.started THEN [invoked EXCEPT !["uploader"] = @ + 1] ELSE invoked
        /\ exits' = IF r.started
                    THEN [exits EXCEPT !["uploader"] = IF out.raised THEN Raised ELSE out.exit]
                    ELSE exits
        /\ stage' = [stage EXCEPT !["upload"] = IF r.ok THEN "ok" ELSE "failed"]
        /\ upload_group' = IF r.started THEN upload_destination(group, env_vars) ELSE upload_group
        /\ IF r.ok THEN pc' = "cleanup" /\ rc' = rc ELSE Return(StageExit("upload"))
        /\ active' = IF r.started /\ out.abandoned THEN active \cup {"uploader"} ELSE active
    /\ UNCHANGED <<flagVars, parserVars, sessVars, pathVars, ptyVars, make_rar_call, report_group, rar_file, par_file, env_vars, folder_kind, fs, env_file, written,
                   deleted, remove_failed, reported, cleanup_calls, last_deleted, prev_failed>>

(* ------------------------------- cleanup ------------------------------- *)
\* files_to_delete without the volume glob
FilesToDelete_noVolumes(rf, pf, files) ==
    (IF rf # NoPath /\ rf \in files THEN {rf} ELSE {})
        \cup (IF pf # NoPath /\ pf \in files THEN {pf} ELSE {})

\* files_to_delete without the os.path.exists checks on the archive and parity base
FilesToDelete_noExistsCheck(rf, pf, files) ==
    (IF rf # NoPath THEN {rf} ELSE {})
        \cup (IF pf # NoPath THEN {pf} ELSE {})
        \cup (IF rf # NoPath THEN GlobVolumes(Splitext0(rf), files) ELSE {})

\* cleanup() lines 315-331: files_to_delete
FilesToDelete(rf, pf, files) ==
    (IF rf # NoPath /\ rf \in files THEN {rf} ELSE {})
        \cup (IF pf # NoPath /\ pf \in files THEN {pf} ELSE {})
        \cup (IF rf # NoPath THEN GlobVolumes(Splitext0(rf), files) ELSE {})

\* cleanup() whose loop ends at the first os.remove that raises (here: with
\* nothing removed)
cleanup_abortsOnFailure(keep, rf, pf, files, failing) ==
    IF keep \/ failing # {} THEN {} ELSE FilesToDelete(rf, pf, files)

\* cleanup() without the --keep-files early return
cleanup_ignoresKeep(keep, rf, pf, files, failing) ==
    FilesToDelete(rf, pf, files) \ failing

\* cleanup() lines 307-346; failing: the files whose os.remove raises.
\* The files it removes.
cleanup(keep, rf, pf, files, failing) ==
    IF keep THEN {} ELSE FilesToDelete(rf, pf, files) \ failing

DoCleanup ==
    \E failing \in SUBSET FilesToDelete(rar_file, par_file, fs) :
        LET removed == cleanup(keep_files, rar_file, par_file, fs, failing) IN
        /\ fs' = fs \ removed
        /\ deleted' = deleted \cup removed
        /\ last_deleted' = removed
        /\ remove_failed' = IF keep_files THEN {} ELSE failing
        /\ prev_failed' = remove_failed
        /\ cleanup_calls' = cleanup_calls + 1

\* run() line 419
Cleanup ==
    /\ pc = "cleanup"
    /\ DoCleanup
    /\ pc' = "report"
    /\ UNCHANGED <<flagVars, parserVars, sessVars, pathVars, ptyVars, make_rar_call, upload_group, report_group, rar_file, par_file, env_vars, folder_kind, env_file, rc,
                   invoked, written, reported, exits, stage, active>>

(* -------------------------------- report ------------------------------- *)

Unspecified == "(Nao especificado)"

\* a report that prefers the credentials' group to --group
display_group_envFirst(g, env) ==
    IF EnvGroup(env) # NoGroup THEN EnvGroup(env)
    ELSE IF g # NoGroup THEN g
    ELSE Unspecified

\* run() lines 433-438: self.group or group_from_env or "(Não especificado)"
display_group(g, env) ==
    IF g # NoGroup THEN g
    ELSE IF EnvGroup(env) # NoGroup THEN EnvGroup(env)
    ELSE Unspecified

\* run() lines 423-463
Report ==
    /\ pc = "report"
    /\ reported' = TRUE
    /\ report_group' = IF skip_upload THEN report_group ELSE display_group(group, env_vars)
    /\ Return(0)
    /\ UNCHANGED <<flagVars, parserVars, sessVars, pathVars, ptyVars, make_rar_call, upload_group, rar_file, par_file, env_vars, folder_kind, fs, env_file,
                   invoked, written, deleted, remove_failed, cleanup_calls, last_deleted, prev_failed, exits, stage, active>>

Next ==
    \/ CheckCredentials
    \/ Validate
    \/ RunMakerar
    \/ RunMakepar
    \/ RunUpload
    \/ Cleanup
    \/ Report

Spec == Init /\ [][Next]_vars

\* run() is one sequential call: every step it can take is eventually taken
FairSpec == Spec /\ WF_vars(Next)

(* ----------------------- make_rar on any folder ------------------------ *)

\* run_makerar about to call make_rar, whatever the folder argument is by now
\* (validate() looked at it earlier; make_rar looks again)
InitMakeRar ==
    /\ ParserFresh
    /\ folder_name \in Folders
    /\ dry_run = FALSE /\ skip_rar = FALSE /\ skip_par = FALSE
    /\ skip_upload = FALSE /\ force \in BOOLEAN /\ keep_files = FALSE
    /\ group \in {NoGroup}
    /\ rar_file = NoPath /\ par_file = NoPath
    /\ env_vars = CompleteEnv
    /\ folder_kind \in {"dir", "file", "absent"}
    /\ fs \in InitialFiles(folder_name)
    /\ fs0 = fs
    /\ env_file = EnvFileOf(CompleteEnv)
    /\ pc = "makerar" /\ rc = NoRc
    /\ ObsInit
    /\ SessionIdle
    /\ PathIdle
    /\ PtyIdle

NextMakeRar == RunMakerar

SpecMakeRar == InitMakeRar /\ [][NextMakeRar]_vars

(* ------------------ artifact paths from the folder argument ------------ *)

\* A path is the sequence of its components below the root; a component is a
\* sequence of pieces, each a "." or a dot-free word: "a.b" is <<"a", ".", "b">>.
Dot == "."
DotDot == <<Dot, Dot>>
FolderNames == {<<"photos">>, <<"a", Dot, "b">>, <<Dot, "hidden">>, DotDot}
\* components in the folder argument
MaxDepth == 2
\* os.getcwd()
Cwd == <<<<"home">>, <<"u">>>>
FolderArgs == UNION {[1..n -> FolderNames] : n \in 1..MaxDepth}

\* Path(folder_path).absolute(): prefixes the working directory, keeps ".."
absolute(p) == Cwd \o p
\* PurePath.name, PurePath.parent
PathName(p) == IF p = <<>> THEN <<>> ELSE p[Len(p)]
PathParent(p) == IF p = <<>> THEN <<>> ELSE SubSeq(p, 1, Len(p) - 1)
\* base + ".rar"
WithSuffix(c, ext) == c \o <<Dot, ext>>

\* os.path.normpath of an absolute path: ".." removes the component before it
RECURSIVE normpath(_)
normpath(p) ==
    IF p = <<>> THEN <<>>
    ELSE LET h == normpath(PathParent(p)) IN
         IF PathName(p) = DotDot THEN PathParent(h) ELSE Append(h, PathName(p))
\* os.path.abspath of an absolute path
abspath(p) == normpath(p)
dirname(p) == PathParent(p)
basename(p) == PathName(p)

\* os.path.splitext(p)[0]: cuts at the last dot of the last component, unless
\* only dots come before it
splitext_root(p) ==
    LET c == PathName(p)
        dots == {i \in 1..Len(c) : c[i] = Dot}
        d == IF dots = {} THEN 0 ELSE CHOOSE i \in dots : \A j \in dots : j <= i
    IN  IF d = 0 \/ \A i \in 1..(d - 1) : c[i] = Dot
        THEN p
        ELSE Append(PathParent(p), SubSeq(c, 1, d - 1))

\* self.folder_path.parent / f"{self.folder_path.name}.rar"
orchestrator_rar(fp) == Append(PathParent(fp), WithSuffix(PathName(fp), "rar"))
\* os.path.splitext(self.rar_file)[0] + ".par2"
orchestrator_par(rar) ==
    LET root == splitext_root(rar) IN
    Append(PathParent(root), WithSuffix(PathName(root), "par2"))
\* make_rar lines 42-49: out_rar
make_rar_out(folder_path) ==
    LET f == abspath(folder_path)
        parent == dirname(f)
        base == basename(normpath(f))
    IN  Append(parent, WithSuffix(base, "rar"))

InitPaths ==
    /\ ParserFresh
    /\ folder_name = "photos"
    /\ dry_run = FALSE /\ skip_rar = FALSE /\ skip_par = FALSE
    /\ skip_upload = FALSE /\ force = FALSE /\ keep_files = FALSE
    /\ group \in {NoGroup}
    /\ rar_file = NoPath /\ par_file = NoPath
    /\ env_vars = CompleteEnv
    /\ folder_kind = "dir"
    /\ fs = {} /\ fs0 = {}
    /\ env_file = EnvFileOf(CompleteEnv)
    /\ pc = "paths" /\ rc = NoRc
    /\ ObsInit
    /\ SessionIdle
    /\ PtyIdle
    /\ path_in \in FolderArgs
    /\ path_branch \in {"reuse", "simulate", "execute"}
    /\ path_rar = <<>> /\ path_par = <<>> /\ path_out = <<>>
    /\ path_pc = "archive"

\* run_makerar with --skip-rar, lines 178-181
PathReuseArchive ==
    /\ path_pc = "archive" /\ path_branch = "reuse"
    /\ path_rar' = orchestrator_rar(absolute(path_in))
    /\ path_pc' = "parity"
    /\ UNCHANGED <<flagVars, orchVars, parserVars, sessVars, ptyVars, path_in, path_branch, path_par, path_out>>

\* run_makerar in dry-run, line 195
PathSimulateArchive ==
    /\ path_pc = "archive" /\ path_branch = "simulate"
    /\ path_rar' = orchestrator_rar(absolute(path_in))
    /\ path_pc' = "parity"
    /\ UNCHANGED <<flagVars, orchVars, parserVars, sessVars, ptyVars, path_in, path_branch, path_par, path_out>>

\* run_makerar calling make_rar(str(self.folder_path), ...), lines 203-206
PathExecuteArchive ==
    /\ path_pc = "archive" /\ path_branch = "execute"
    /\ path_out' = make_rar_out(absolute(path_in))
    /\ path_rar' = orchestrator_rar(absolute(path_in))
    /\ path_pc' = "parity"
    /\ UNCHANGED <<flagVars, orchVars, parserVars, sessVars, ptyVars, path_in, path_branch, path_par>>

\* run_makepar, lines 228, 244 and 262
PathParity ==
    /\ path_pc = "parity"
    /\ path_par' = orchestrator_par(path_rar)
    /\ path_pc' = "done"
    /\ UNCHANGED <<flagVars, orchVars, parserVars, sessVars, ptyVars, path_in, path_branch, path_rar, path_out>>

NextPaths ==
    \/ PathReuseArchive
    \/ PathSimulateArchive
    \/ PathExecuteArchive
    \/ PathParity

SpecPaths == InitPaths /\ [][NextPaths]_vars

(* ---------------------- cleanup() called repeatedly -------------------- *)

\* an orchestrator whose stages have run (or not), about to call cleanup()
InitCleanup ==
    /\ ParserFresh
    /\ folder_name \in Folders
    /\ dry_run = FALSE /\ skip_rar = FALSE /\ skip_par = FALSE
    /\ skip_upload = FALSE /\ force = FALSE /\ keep_files \in BOOLEAN
    /\ group = NoGroup
    /\ rar_file \in {NoPath, RarPath(folder_name)}
    /\ par_file \in IF rar_file = NoPath THEN {NoPath} ELSE {NoPath, ParPath(rar_file)}
    /\ env_vars = CompleteEnv
    /\ folder_kind = "dir"
    /\ fs \in InitialFiles(folder_name)
    /\ fs0 = fs
    /\ env_file = EnvFileOf(CompleteEnv)
    /\ pc = "cleanup" /\ rc = NoRc
    /\ ObsInit
    /\ SessionIdle
    /\ PathIdle
    /\ PtyIdle

CleanupCall ==
    /\ pc = "cleanup"
    /\ cleanup_calls < MaxCleanupCalls
    /\ DoCleanup
    /\ UNCHANGED <<flagVars, parserVars, sessVars, pathVars, ptyVars, make_rar_call, upload_group, report_group, rar_file, par_file, env_vars, folder_kind, env_file, pc, rc,
                   invoked, written, reported, exits, stage, active>>

NextCleanup == CleanupCall

SpecCleanup == InitCleanup /\ [][NextCleanup]_vars

(* ------------------- parse_line fed a stream of lines ------------------ *)

\* one stage run: a fresh parser, the orchestrator idle
InitParser ==
    /\ ParserFresh
    /\ folder_name = "photos"
    /\ dry_run = FALSE /\ skip_rar = FALSE /\ skip_par = FALSE
    /\ skip_upload = FALSE /\ force = FALSE /\ keep_files = FALSE
    /\ group = NoGroup
    /\ rar_file = RarPath(folder_name) /\ par_file = ParPath(rar_file)
    /\ env_vars = CompleteEnv
    /\ folder_kind = "dir"
    /\ fs = {rar_file, par_file}
    /\ fs0 = {}
    /\ env_file = EnvFileOf(CompleteEnv)
    /\ pc = "upload" /\ rc = NoRc
    /\ ObsInit
    /\ SessionIdle
    /\ PathIdle
    /\ PtyIdle

ParserFields ==
    [total_articles |-> total_articles, uploaded_articles |-> uploaded_articles,
     total_size |-> total_size, uploaded_size |-> uploaded_size, start_time |-> start_time]

\* parser.parse_line(line)
ParseLine ==
    /\ calls < MaxCalls
    /\ \E l \in Lines : \E c \in {parse_line(ParserFields, l, now)} :
        /\ total_articles' = c.total_articles
        /\ uploaded_articles' = c.uploaded_articles
        /\ total_size' = c.total_size
        /\ uploaded_size' = c.uploaded_size
        /\ start_time' = c.start_time
        /\ lines_processed' = IF c.raised THEN lines_processed ELSE lines_processed + 1
        /\ result' = IF c.raised
                     THEN [NoEvent EXCEPT !.raw = l, !.raised = TRUE]
                     ELSE [raw |-> l, info |-> c.info, progress |-> c.progress,
                           speed |-> c.speed, eta |-> c.eta, raised |-> FALSE]
    /\ calls' = calls + 1
    /\ UNCHANGED <<flagVars, orchVars, sessVars, pathVars, ptyVars, now>>

\* time passes between two lines of the tool's output
Tick ==
    /\ now < MaxTime
    /\ now' = now + 1
    /\ UNCHANGED <<flagVars, orchVars, sessVars, pathVars, ptyVars, total_articles, uploaded_articles, total_size,
                   uploaded_size, start_time, lines_processed, calls, result>>

NextParser == ParseLine \/ Tick

SpecParser == InitParser /\ [][NextParser]_vars

(* ----------------------- one stage's process session ------------------- *)

\* lines a child writes before it exits or hangs
MaxLines == 3
\* the stage timeout (timeout=3600 of subprocess.run), in clock ticks
TimeoutTicks == 2

\* how a stage runs its tool:
\*   "captured"  subprocess.run(cmd, capture_output=True, timeout=3600)
\*               (src/main.py run_makerar, run_makepar)
\*   "lines"     subprocess.Popen and a loop over proc.stdout (src/main.py run_upload)
\*   "pty"       run_command_with_pty (src/src/upapasta/main.py, every stage)
Sessions ==
    {[stage |-> g, kind |-> "captured"] : g \in {"archive", "parity"}}
        \cup {[stage |-> "upload", kind |-> "lines"]}
        \cup {[stage |-> g, kind |-> "pty"] : g \in Stages}

\* the kinds of line a tool writes; "" is an empty line
ToolLines == {"Uploading 2 article(s)", "Uploaded 1/2 articles", "Finished uploading",
              "Finished uploading 1..2 MiB", "error: connection refused", ""}

\* line.strip() of run_upload's loop is the identity on these lines
\* "INFO" in line or "Uploading" in line or "Finished" in line
IsAnnouncement(line) ==
    line \in {"Uploading 2 article(s)", "Finished uploading", "Finished uploading 1..2 MiB"}
\* parser.parse_line(line) raises (float() of a malformed numeral)
ParseRaises(line) == line = "Finished uploading 1..2 MiB"
\* parsed["info"] is set
HasInfo(line) == line \in {"Uploading 2 article(s)", "Finished uploading"}
\* parsed["progress"] * 100; for a counter line it is None while the parser's
\* timer has not started
ParsedProgress(line) ==
    CASE line = "Finished uploading" -> {100}
      [] line = "Uploaded 1/2 articles" -> {None, 50}
      [] OTHER -> {None}
\* min(95, elapsed / estimated_total_time * 100)
Estimates == {10, 50, 95}

InitSession ==
    /\ ParserFresh
    /\ folder_name = "photos"
    /\ dry_run \in BOOLEAN /\ skip_rar = FALSE /\ skip_par = FALSE
    /\ skip_upload = FALSE /\ force = FALSE /\ keep_files = FALSE
    /\ rar_file = RarPath(folder_name) /\ par_file = ParPath(rar_file)
    /\ env_vars = CompleteEnv
    /\ folder_kind = "dir"
    /\ fs = {} /\ fs0 = {}
    /\ env_file = EnvFileOf(CompleteEnv)
    /\ pc = "session" /\ rc = NoRc
    /\ ObsInit
    /\ PathIdle
    /\ PtyIdle
    /\ group = NoGroup
    /\ session \in Sessions
    /\ debug \in (IF session.kind = "lines" THEN BOOLEAN ELSE {FALSE})
    /\ proc \in [alive : {FALSE}, hangs : BOOLEAN, returncode : {0, 1}, wrote : BOOLEAN]
    /\ output = <<>> /\ shown = <<>> /\ elapsed = 0 /\ spc = "idle" /\ success = FALSE
    /\ progress_bar = None /\ progress_started = FALSE /\ killed = FALSE

SessionReturn(ok) == spc' = "returned" /\ success' = ok


\* the dry-run branch of the stage, or the spawn of its tool
SessionStart ==
    /\ spc = "idle"
    /\ IF dry_run
       THEN /\ SessionReturn(TRUE)
            /\ UNCHANGED <<proc, progress_bar>>
       ELSE \E spawned \in BOOLEAN :
            /\ progress_bar' = IF session.kind = "lines" THEN 0 ELSE progress_bar
            /\ IF spawned
               THEN /\ proc' = [proc EXCEPT !.alive = TRUE]
                    /\ spc' = "reading" /\ success' = success
               ELSE /\ SessionReturn(FALSE)
                    /\ UNCHANGED proc
    /\ UNCHANGED <<flagVars, orchVars, parserVars, pathVars, ptyVars, session, debug, output, shown, elapsed,
                   progress_started, killed>>

\* one iteration of run_upload's loop over proc.stdout (src/main.py lines 507-570)
HandleUploadLine(line) ==
    IF line = ""
    THEN UNCHANGED <<shown, progress_bar, progress_started, spc, success>>
    ELSE LET dbg == IF debug THEN <<[how |-> "debug", text |-> line]>> ELSE <<>> IN
         IF ParseRaises(line)
         THEN /\ shown' = shown \o dbg
              /\ SessionReturn(FALSE)
              /\ UNCHANGED <<progress_bar, progress_started>>
         ELSE LET info == IF IsAnnouncement(line) /\ HasInfo(line)
                          THEN <<[how |-> "info", text |-> line]>> ELSE <<>>
                  started == progress_started \/ line = "Uploading 2 article(s)"
              IN  /\ shown' = shown \o dbg \o info
                  /\ progress_started' = started
                  \* on the line that starts the timer the estimate is still 0
                  /\ \E p \in ParsedProgress(line) :
                        progress_bar' \in IF p # None THEN {p}
                                         ELSE IF progress_started
                                         THEN Estimates \cup {progress_bar}
                                         ELSE {progress_bar}
                  /\ UNCHANGED <<spc, success>>

\* the child writes a line and the stage handles it
ReadLine ==
    /\ spc = "reading" /\ proc.alive /\ Len(output) < MaxLines
    /\ \E line \in ToolLines :
        /\ output' = Append(output, line)
        /\ CASE session.kind = "captured" ->
                    UNCHANGED <<shown, progress_bar, progress_started, spc, success>>
             [] session.kind = "pty" ->
                    /\ shown' = Append(shown, [how |-> "verbatim", text |-> line])
                    /\ UNCHANGED <<progress_bar, progress_started, spc, success>>
             [] session.kind = "lines" -> HandleUploadLine(line)
    /\ UNCHANGED <<flagVars, orchVars, parserVars, pathVars, ptyVars, session, debug, proc, elapsed, killed>>

\* a child that does not hang closes its output and exits (followed while the
\* stage supervises it)
ProcExits ==
    /\ spc = "reading" /\ proc.alive /\ ~proc.hangs
    /\ proc' = [proc EXCEPT !.alive = FALSE]
    /\ UNCHANGED <<flagVars, orchVars, parserVars, pathVars, ptyVars, session, debug, output, shown, elapsed, spc,
                   success, progress_bar, progress_started, killed>>

\* wall-clock time passes while the stage waits for its child
SessionTick ==
    /\ spc = "reading" /\ elapsed < TimeoutTicks
    /\ elapsed' = elapsed + 1
    /\ UNCHANGED <<flagVars, orchVars, parserVars, pathVars, ptyVars, session, debug, proc, output, shown, spc,
                   success, progress_bar, progress_started, killed>>

\* subprocess.run(..., timeout=3600): the child is killed and TimeoutExpired is
\* raised, which the stage's except clause turns into False
TimeoutExpired ==
    /\ session.kind = "captured" /\ spc = "reading" /\ proc.alive
    /\ elapsed = TimeoutTicks
    /\ proc' = [proc EXCEPT !.alive = FALSE]
    /\ killed' = TRUE
    /\ SessionReturn(FALSE)
    /\ UNCHANGED <<flagVars, orchVars, parserVars, pathVars, ptyVars, session, debug, output, shown, elapsed,
                   progress_bar, progress_started>>

Verbatim(lines) == [i \in 1..Len(lines) |-> [how |-> "verbatim", text |-> lines[i]]]

\* Finish without 'progress_bar.n = 100' before the exit status is read
Finish_noFinalProgress ==
    /\ spc = "reading" /\ ~proc.alive
    /\ CASE session.kind = "captured" ->
                /\ shown' = IF proc.returncode = 0 THEN shown ELSE shown \o Verbatim(output)
                /\ SessionReturn(proc.returncode = 0 /\ proc.wrote)
                /\ UNCHANGED progress_bar
         [] session.kind = "lines" ->
                /\ SessionReturn(proc.returncode = 0)
                /\ UNCHANGED <<shown, progress_bar>>
         [] session.kind = "pty" ->
                /\ SessionReturn(proc.returncode = 0 /\ (session.stage = "upload" \/ proc.wrote))
                /\ UNCHANGED <<shown, progress_bar>>
    /\ UNCHANGED <<flagVars, orchVars, parserVars, pathVars, ptyVars, session, debug, proc, output, elapsed,
                   progress_started, killed>>

\* the child has exited: the stage collects its status and returns
Finish ==
    /\ spc = "reading" /\ ~proc.alive
    /\ CASE session.kind = "captured" ->
                /\ shown' = IF proc.returncode = 0 THEN shown ELSE shown \o Verbatim(output)
                /\ SessionReturn(proc.returncode = 0 /\ proc.wrote)
                /\ UNCHANGED progress_bar
         [] session.kind = "lines" ->
                /\ progress_bar' = 100
                /\ SessionReturn(proc.returncode = 0)
                /\ UNCHANGED shown
         [] session.kind = "pty" ->
                /\ SessionReturn(proc.returncode = 0 /\ (session.stage = "upload" \/ proc.wrote))
                /\ UNCHANGED <<shown, progress_bar>>
    /\ UNCHANGED <<flagVars, orchVars, parserVars, pathVars, ptyVars, session, debug, proc, output, elapsed,
                   progress_started, killed>>

NextSession ==
    \/ SessionStart
    \/ ReadLine
    \/ ProcExits
    \/ SessionTick
    \/ TimeoutExpired
    \/ Finish

SpecSession == InitSession /\ [][NextSession]_vars

\* the stage and its child keep running: a step that can be taken is taken
FairSession == SpecSession /\ WF_vars(NextSession)

(* ------------------------- run_command_with_pty ------------------------ *)

\* chunks of output the supervisor copies in one call
MaxChunks == 3

\* run_command_with_pty about to be called by a stage
InitPty ==
    /\ ParserFresh
    /\ folder_name = "photos"
    /\ dry_run = FALSE /\ skip_rar = FALSE /\ skip_par = FALSE
    /\ skip_upload = FALSE /\ force = FALSE /\ keep_files = FALSE
    /\ group \in {NoGroup}
    /\ rar_file = RarPath(folder_name) /\ par_file = ParPath(rar_file)
    /\ env_vars = CompleteEnv
    /\ folder_kind = "dir"
    /\ fs = {} /\ fs0 = {}
    /\ env_file = EnvFileOf(CompleteEnv)
    /\ pc = "pty" /\ rc = NoRc
    /\ ObsInit
    /\ SessionIdle
    /\ PathIdle
    /\ pty_pc = "idle"
    /\ pty_child \in [spawned : {FALSE}, alive : {FALSE}, stream : {"none"}, returncode : {0, 1}]
    /\ pty_master = "none" /\ pty_slave = "none"
    /\ pty_stop = "none" /\ pty_status = None /\ pty_signal = "none" /\ pty_chunks = 0

\* lines 51-57: pty.openpty(), subprocess.Popen(cmd, stdout=slave, stderr=slave),
\* os.close(slave). Popen raises when the command cannot be started; that is
\* before the try block.
PtySpawn ==
    /\ pty_pc = "idle"
    /\ \E started \in BOOLEAN :
        IF started
        THEN /\ pty_child' = [pty_child EXCEPT !.spawned = TRUE, !.alive = TRUE, !.stream = "open"]
             /\ pty_master' = "open" /\ pty_slave' = "closed"
             /\ pty_pc' = "reading"
             /\ UNCHANGED pty_signal
        ELSE /\ pty_master' = "open" /\ pty_slave' = "open"
             /\ pty_signal' = "OSError"
             /\ pty_pc' = "returned"
             /\ UNCHANGED pty_child
    /\ UNCHANGED <<flagVars, orchVars, parserVars, sessVars, pathVars, pty_stop, pty_status, pty_chunks>>

\* lines 61-73, a chunk was read: sys.stdout.buffer.write / flush, which raise
\* when the orchestrator's own stdout is gone (outside the inner try)
PtyCopy ==
    /\ pty_pc = "reading" /\ pty_child.stream = "open" /\ pty_chunks < MaxChunks
    /\ \E written_out \in BOOLEAN :
        IF written_out
        THEN /\ pty_chunks' = pty_chunks + 1
             /\ UNCHANGED <<pty_pc, pty_stop>>
        ELSE /\ pty_stop' = "write_error"
             /\ pty_pc' = "finally"
             /\ UNCHANGED pty_chunks
    /\ UNCHANGED <<flagVars, orchVars, parserVars, sessVars, pathVars, pty_child, pty_master, pty_slave,
                   pty_status, pty_signal>>

\* lines 62-70: the slave side is closed; os.read raises OSError (EIO) or
\* returns nothing, and the loop breaks
PtyEndOfStream ==
    /\ pty_pc = "reading" /\ pty_child.stream = "closed"
    /\ \E how \in {"eof", "read_error"} : pty_stop' = how
    /\ pty_pc' = "finally"
    /\ UNCHANGED <<flagVars, orchVars, parserVars, sessVars, pathVars, pty_child, pty_master, pty_slave,
                   pty_status, pty_signal, pty_chunks>>

\* the child closes its terminal and goes on running
PtyChildCloses ==
    /\ pty_child.alive /\ pty_child.stream = "open"
    /\ pty_child' = [pty_child EXCEPT !.stream = "closed"]
    /\ UNCHANGED <<flagVars, orchVars, parserVars, sessVars, pathVars, pty_pc, pty_master, pty_slave,
                   pty_stop, pty_status, pty_signal, pty_chunks>>

\* the child exits, which closes its terminal
PtyChildExits ==
    /\ pty_child.alive
    /\ pty_child' = [pty_child EXCEPT !.alive = FALSE, !.stream = "closed"]
    /\ UNCHANGED <<flagVars, orchVars, parserVars, sessVars, pathVars, pty_pc, pty_master, pty_slave,
                   pty_stop, pty_status, pty_signal, pty_chunks>>

\* line 77: os.close(master)
PtyCloseMaster ==
    /\ pty_pc = "finally"
    /\ pty_master' = "closed"
    /\ pty_pc' = "waiting"
    /\ UNCHANGED <<flagVars, orchVars, parserVars, sessVars, pathVars, pty_child, pty_slave, pty_stop,
                   pty_status, pty_signal, pty_chunks>>

\* lines 80-83: process.wait() returns once the child has exited; then
\* CalledProcessError for a non-zero status, else the pending exception if the
\* loop was left by one, else a normal return
PtyWait ==
    /\ pty_pc = "waiting" /\ ~pty_child.alive
    /\ pty_status' = pty_child.returncode
    /\ pty_signal' = IF pty_child.returncode # 0 THEN "CalledProcessError"
                     ELSE IF pty_stop = "write_error" THEN "OSError"
                     ELSE "returned"
    /\ pty_pc' = "returned"
    /\ UNCHANGED <<flagVars, orchVars, parserVars, sessVars, pathVars, pty_child, pty_master, pty_slave,
                   pty_stop, pty_chunks>>

NextPty ==
    \/ PtySpawn
    \/ PtyCopy
    \/ PtyEndOfStream
    \/ PtyChildCloses
    \/ PtyChildExits
    \/ PtyCloseMaster
    \/ PtyWait

SpecPty == InitPty /\ [][NextPty]_vars

(* ------------------------------- claims -------------------------------- *)

ValidFolder == folder_kind = "dir"
DerivedRar == RarPath(folder_name)
DerivedPar == [stem |-> folder_name, kind |-> "par2", vol |-> 0]
NoToolInvoked == \A t \in Tools : invoked[t] = 0

\* C1: in dry-run mode, for a valid input folder, run() writes no file and
\* deletes no file, whatever the flags, the files present and the credential file.
C1_DryRunWritesAndDeletesNothing ==
    (dry_run /\ ValidFolder) => (written = {} /\ deleted = {} /\ fs = fs0)

\* C2 as stated: in dry-run mode, for a valid input folder and any combination of
\* the other flags, a finished run() has printed the report and returned 0.
C2_DryRunAlwaysReturnsZero ==
    (pc = "done" /\ dry_run /\ ValidFolder) => (rc = 0 /\ reported)

\* the skip flags that are set find their artifact when run() is called
SkipsSatisfied ==
    /\ skip_rar => DerivedRar \in fs0
    /\ skip_par => DerivedPar \in fs0

\* C2 amended: in dry-run mode, for a valid input folder, run() reaches the final
\* report and returns 0 provided every skip flag that is set finds its artifact
\* (--skip-rar: the archive exists, --skip-par: the parity base exists).
C2_DryRunReachesReportWhenSkipsSatisfied ==
    (pc = "creds" /\ dry_run /\ ValidFolder /\ SkipsSatisfied)
        ~> (pc = "done" /\ rc = 0 /\ reported)

C2_Witness ==
    pc = "done" /\ dry_run /\ ValidFolder /\ SkipsSatisfied /\ skip_par /\ ~skip_rar
        /\ ~skip_upload /\ rc = 0 /\ reported

\* C3: with --skip-rar and no file at <parent>/<folder-name>.rar, run() returns 1,
\* the archiver is never started and no later stage is entered.
C3_SkipRarMissingArchiveFails ==
    (skip_rar /\ DerivedRar \notin fs0) =>
        /\ NoToolInvoked
        /\ pc \in {"creds", "validate", "makerar", "done"}
        /\ pc = "done" => rc = 1
        /\ rar_file = NoPath /\ par_file = NoPath /\ ~reported /\ cleanup_calls = 0

C3_Witness ==
    pc = "done" /\ skip_rar /\ DerivedRar \notin fs0 /\ ValidFolder /\ rc = 1

\* C4: when the parity tool exits non-zero, run() returns 2, the archive produced
\* by the archive stage is still on disk, cleanup did not run and the uploader is
\* never started.
C4_ParityFailureReturnsTwo ==
    (exits["parity"] = 1) =>
        /\ pc = "done" /\ rc = 2
        /\ rar_file = DerivedRar /\ rar_file \in fs
        /\ cleanup_calls = 0 /\ deleted = {}
        /\ invoked["uploader"] = 0 /\ exits["uploader"] = NotRun
        /\ ~reported

C4_Witness ==
    exits["parity"] = 1 /\ exits["archiver"] = 0 /\ invoked["archiver"] = 1 /\ rc = 2

AllToolsSucceeded ==
    /\ ~skip_rar /\ ~skip_par /\ ~skip_upload /\ ~dry_run
    /\ \A t \in Tools : exits[t] = 0

\* C5 as stated: no skip flag, no dry-run, the three tools succeed: run() returns 0,
\* the archive is recorded at <parent>/<folder>.rar, the parity base at
\* <parent>/<folder>.par2 and, without --keep-files, the archive, the parity base
\* and every volume file are gone after the run.
C5_SuccessRemovesEveryArtifact ==
    (pc = "done" /\ AllToolsSucceeded) =>
        /\ rc = 0 /\ reported
        /\ rar_file = DerivedRar /\ par_file = DerivedPar
        /\ ~keep_files => ArtifactFiles(folder_name) \cap fs = {}

\* C5 amended: as C5, but a file is gone after the run only if its removal did
\* not fail: the artifacts still on disk are exactly those whose os.remove raised.
C5_SuccessRemovesArtifactsUnlessRemoveFails ==
    (pc = "done" /\ AllToolsSucceeded) =>
        /\ rc = 0 /\ reported
        /\ rar_file = DerivedRar /\ par_file = DerivedPar
        /\ ~keep_files => ArtifactFiles(folder_name) \cap fs = remove_failed

C5_Witness ==
    /\ pc = "done" /\ AllToolsSucceeded /\ ~keep_files /\ rc = 0
    /\ remove_failed = {}
    /\ ArtifactFiles(folder_name) \subseteq deleted

\* C6 as stated: when cleanup() is called twice in succession, the second call
\* removes nothing.
C6_SecondCleanupDeletesNothing ==
    cleanup_calls = 2 => last_deleted = {}

\* C6 amended: when cleanup() is called twice in succession, the second call
\* removes only files whose removal failed in the first call; when no removal of
\* the first call failed, the second call removes nothing and ends normally.
C6_SecondCleanupDeletesOnlyFailedRemovals ==
    cleanup_calls = 2 =>
        /\ last_deleted \subseteq prev_failed
        /\ last_deleted \subseteq fs0
        /\ prev_failed = {} => (last_deleted = {} /\ remove_failed = {})

C6_Witness ==
    /\ cleanup_calls = 2 /\ ~keep_files /\ prev_failed = {}
    /\ Cardinality(deleted) >= 3 /\ last_deleted = {}

(* --------------------------- parser claims ----------------------------- *)

\* the last parse_line call was on a line for which P holds
Parsed == calls > 0
\* this step is a parse_line call
ParseStep == calls' = calls + 1

\* C7: for a line matching the totals announcement, parse_line records the total
\* article count and size, returns an info message and no progress, and starts
\* the timer only if it was not started: a later totals line does not restart it.
C7_TotalsRecordedTimerStartedOnce ==
    [][(ParseStep /\ Match1(result'.raw).found) =>
          /\ ~result'.raised
          /\ total_articles' = Match1(result'.raw).g1
          /\ total_size' = Match1(result'.raw).g2
          /\ result'.info.kind = "total"
          /\ result'.progress = NoneR
          /\ start_time = None => start_time' = now
          /\ start_time # None => start_time' = start_time]_vars

\* a valid N/M progress line: N <= M, M > 0, no size or file keyword
ValidFractionLine(l) ==
    /\ Match5(l).found /\ ~HasSizeKeyword(l)
    /\ Match5(l).g1 <= Match5(l).g2 /\ Match5(l).g2 > 0

\* C8: for a valid N/M line, in any parser state, parse_line returns progress
\* N/M, and an eta, when it returns one, that is >= 0.
C8_ValidFractionYieldsProgress ==
    (Parsed /\ ValidFractionLine(result.raw)) =>
        /\ ~result.raised
        /\ result.progress # NoneR
        /\ result.progress.num * Match5(result.raw).g2
               = Match5(result.raw).g1 * result.progress.den
        /\ result.eta # None => result.eta >= 0

\* the line matches none of the nine regular expressions
MatchesNoPattern(l) ==
    /\ ~Match1(l).found /\ ~Match2(l).found /\ ~Match3(l).found
    /\ ~Match4(l).found /\ ~Match5(l).found /\ ~Match6(l).found
    /\ ~Match7(l).found /\ ~Match8(l).found /\ ~Match9(l).found

\* C9: for a line that matches no pattern, in any parser state, parse_line raises
\* nothing and returns an event with info, progress, speed and eta all absent.
C9_UnmatchedLineYieldsEmptyEvent ==
    (Parsed /\ MatchesNoPattern(result.raw)) =>
        /\ ~result.raised
        /\ result.info = NoInfo /\ result.progress = NoneR
        /\ result.speed = NoneR /\ result.eta = None

C9_Witness ==
    /\ calls >= 2 /\ MatchesNoPattern(result.raw)
    /\ \E i \in 1..Len(result.raw) : result.raw[i].w = "ESC[0m"
    /\ start_time # None /\ now > start_time /\ Truthy(total_articles)
    /\ lines_processed = calls

\* C10: for a completion line, parse_line returns progress 1.0 and the completion
\* info message, whatever was recorded before and whatever else the line matches.
C10_CompletionForcesFullProgress ==
    (Parsed /\ Match9(result.raw).found) =>
        /\ ~result.raised
        /\ result.progress = Frac(1, 1)
        /\ result.info.kind = "done"

(* ----------------------- orchestrator claims, II ----------------------- *)

\* C11: run() maps stage failures to exit codes: a failed archive stage gives 1,
\* a failed parity stage 2, a failed upload stage 3, and 0 is returned only when
\* the archive and parity stages succeeded, the upload stage succeeded or was
\* skipped by --skip-upload, and the final report was printed.
C11_StageFailuresMapToExitCodes ==
    pc = "done" =>
        /\ stage["archive"] = "failed" => rc = 1
        /\ stage["parity"] = "failed" => rc = 2
        /\ stage["upload"] = "failed" => rc = 3
        /\ rc = 0 =>
            /\ reported
            /\ stage["archive"] = "ok" /\ stage["parity"] = "ok"
            /\ \/ stage["upload"] = "ok"
               \/ skip_upload /\ stage["upload"] = "pending"

C11_Witness ==
    /\ pc = "done" /\ rc = 2 /\ stage["archive"] = "ok" /\ stage["parity"] = "failed"
    /\ ~dry_run /\ exits["parity"] = 1

\* C12: when the input folder does not exist or is not a directory, run() aborts
\* before any stage runs, with no external tool started, and with an exit code
\* that is never returned for an archive-stage or a parity-stage failure.
C12_InvalidFolderHasItsOwnExitCode ==
    (pc = "done" /\ ~ValidFolder) =>
        /\ NoToolInvoked
        /\ \A g \in Stages : stage[g] = "pending"
        /\ rc \notin {StageExit("archive"), StageExit("parity")}

\* the credentials run() holds after check_or_prompt_credentials lack a required key
CredentialsUnresolved ==
    /\ ~skip_upload /\ pc # "creds"
    /\ \E k \in RequiredKeys : Get(env_vars, k) = ""

\* C13: when upload is not skipped and the credentials cannot be resolved (the
\* credential file is missing or lacks required keys, and prompting does not
\* supply them), run() aborts with exit code 3 before any stage runs.
C13_UnresolvedCredentialsAbortWithThree ==
    CredentialsUnresolved =>
        /\ pc = "done" /\ rc = 3
        /\ NoToolInvoked
        /\ \A g \in Stages : stage[g] = "pending"

\* C14: a skip flag replaces running the stage's tool by an existence check of
\* the derived artifact. With --skip-par the parity generator is never started,
\* the parity stage succeeds iff <archive-base>.par2 exists, and otherwise run()
\* returns 2; with --skip-rar and an existing archive the archive stage succeeds
\* with the archiver never started.
C14_SkipFlagsCheckExistence ==
    /\ skip_par =>
        /\ invoked["parity"] = 0
        /\ stage["parity"] = "ok" => (DerivedPar \in fs0 /\ par_file = DerivedPar)
        /\ stage["parity"] = "failed" => (DerivedPar \notin fs0 /\ pc = "done" /\ rc = 2)
    /\ (skip_rar /\ DerivedRar \in fs0) =>
        /\ invoked["archiver"] = 0
        /\ stage["archive"] # "failed"
        /\ stage["archive"] = "ok" => rar_file = DerivedRar

C14_Witness ==
    /\ skip_par /\ skip_rar /\ ~dry_run /\ ~skip_upload
    /\ stage["archive"] = "ok" /\ stage["parity"] = "ok" /\ exits["uploader"] = 0
    /\ pc = "done" /\ rc = 0

\* a step in which tool t was started
Starts(t) == invoked'[t] = invoked[t] + 1

\* C15: when a stage's tool reports success (exit status 0) but the expected
\* artifact (the archive, respectively the parity base) does not exist
\* afterwards, the stage has failed and run() returns that stage's exit code.
C15_SuccessWithoutArtifactFails ==
    [][/\ (Starts("archiver") /\ exits'["archiver"] = 0 /\ DerivedRar \notin fs') =>
            (stage'["archive"] = "failed" /\ pc' = "done" /\ rc' = 1)
       /\ (Starts("parity") /\ exits'["parity"] = 0 /\ DerivedPar \notin fs') =>
            (stage'["parity"] = "failed" /\ pc' = "done" /\ rc' = 2)]_vars

C15_Witness ==
    /\ pc = "done" /\ rc = 2 /\ exits["archiver"] = 0 /\ exits["parity"] = 0
    /\ DerivedRar \in fs /\ DerivedPar \notin fs /\ stage["parity"] = "failed"
    /\ VolPath(folder_name, 1) \in fs

\* C16: outside dry-run, whenever the parity generator is started the archive
\* exists at the derived archive path, and whenever the uploader is started the
\* parity base exists at the derived parity path.
C16_ArtifactsExistWhenNextToolStarts ==
    [][/\ Starts("parity") =>
            (~dry_run /\ rar_file = DerivedRar /\ DerivedRar \in fs)
       /\ Starts("uploader") =>
            (~dry_run /\ par_file = DerivedPar /\ DerivedPar \in fs)]_vars

C16_Witness ==
    /\ ~dry_run /\ ~skip_rar /\ ~skip_par
    /\ invoked["archiver"] = 1 /\ invoked["parity"] = 1 /\ invoked["uploader"] = 1

\* C17: with --skip-upload the uploader is never started, credentials are neither
\* loaded nor prompted for, cleanup is not run (no artifact is deleted), and once
\* the archive and parity stages have succeeded run() prints the final report
\* and returns 0.
C17_SkipUploadOmitsUploadAndCleanup ==
    skip_upload =>
        /\ invoked["uploader"] = 0 /\ stage["upload"] = "pending"
        /\ env_vars = EmptyDict /\ written = {}
        /\ cleanup_calls = 0 /\ deleted = {}
        /\ (stage["archive"] = "ok" /\ stage["parity"] = "ok") =>
            /\ pc \in {"report", "done"}
            /\ pc = "done" => (rc = 0 /\ reported)

C17_Witness ==
    /\ skip_upload /\ ~dry_run /\ pc = "done" /\ rc = 0 /\ reported
    /\ invoked["archiver"] = 1 /\ invoked["parity"] = 1
    /\ ArtifactFiles(folder_name) \subseteq fs
    /\ ~env_file.exists

\* a step in which cleanup() was called
CleanupRuns == cleanup_calls' = cleanup_calls + 1

\* C18: with --keep-files cleanup() deletes no file: every file that existed
\* before the call still exists after it.
C18_KeepFilesDeletesNothing ==
    [][(CleanupRuns /\ keep_files) =>
            (fs' = fs /\ deleted' = deleted /\ last_deleted' = {})]_vars

C18_Witness ==
    /\ keep_files /\ ~dry_run /\ cleanup_calls = 1 /\ pc = "done" /\ rc = 0
    /\ ArtifactFiles(folder_name) \subseteq fs

\* C19: in cleanup each deletion is independently fallible: when removing some
\* files fails, the failures are reported and every other listed file is still
\* removed; and a cleanup failure does not change the result: run() returns 0.
C19_CleanupFailuresAreIsolated ==
    /\ [][(CleanupRuns /\ ~keep_files) =>
            /\ remove_failed' \subseteq FilesToDelete(rar_file, par_file, fs)
            /\ last_deleted' = FilesToDelete(rar_file, par_file, fs) \ remove_failed'
            /\ fs' = fs \ last_deleted']_vars
    /\ []((pc = "done" /\ cleanup_calls > 0) => (rc = 0 /\ reported))

C19_Witness ==
    /\ pc = "done" /\ rc = 0 /\ ~keep_files /\ ~dry_run
    /\ Cardinality(remove_failed) = 1 /\ Cardinality(last_deleted) >= 2

\* C20: at most one external tool process is active at any time and the tools
\* start in the order archiver, parity generator, uploader: a tool is started
\* only when no process is left running and the previous stage has ended with
\* its tool's exit status collected.
C20_OneToolAtATimeInOrder ==
    /\ [][/\ \A t \in Tools : Starts(t) => (active = {} /\ invoked[t] = 0)
          /\ Starts("archiver") => (invoked["parity"] = 0 /\ invoked["uploader"] = 0)
          /\ Starts("parity") =>
                /\ stage["archive"] = "ok" /\ exits["archiver"] \in {NotRun, 0}
                /\ invoked["uploader"] = 0
          /\ Starts("uploader") =>
                /\ stage["parity"] = "ok" /\ exits["parity"] \in {NotRun, 0}]_vars
    /\ [](Cardinality(active) <= 1)

C20_Witness ==
    /\ pc = "done" /\ rc = 0 /\ active = {} /\ keep_files
    /\ \A t \in Tools : invoked[t] = 1 /\ exits[t] = 0

\* the parser and event fields after patterns 1..k of one parse_line call
RECURSIVE AfterRule(_, _, _, _)
AfterRule(k, p, l, t) ==
    IF k = 0
    THEN [total_articles |-> p.total_articles, uploaded_articles |-> p.uploaded_articles,
          total_size |-> p.total_size, uploaded_size |-> p.uploaded_size,
          start_time |-> p.start_time,
          info |-> NoInfo, progress |-> NoneR, speed |-> NoneR, eta |-> None,
          raised |-> FALSE]
    ELSE ApplyRule(k, AfterRule(k - 1, p, l, t), l, t)

\* the progress patterns that have set a progress value by pattern 8
Yielding(p, l, t) == {k \in 2..8 : AfterRule(k, p, l, t).progress # NoneR}

\* C30: within one parse_line call, once a progress pattern has set a progress
\* value (0 included), no later pattern but the completion announcement changes
\* the event's progress, speed or eta or the parser's uploaded / total article
\* counters.
C30_FirstYieldingRuleDecides ==
    [][(ParseStep /\ ~result'.raised /\ Yielding(ParserFields, result'.raw, now) # {}) =>
          \E y \in {Yielding(ParserFields, result'.raw, now)} :
          \E first \in {AfterRule(CHOOSE k \in y : \A j \in y : k <= j,
                                  ParserFields, result'.raw, now)} :
              /\ result'.progress = first.progress \/ Match9(result'.raw).found
              /\ result'.speed = first.speed
              /\ result'.eta = first.eta
              /\ uploaded_articles' = first.uploaded_articles
              /\ total_articles' = first.total_articles]_vars

(* ----------------------- orchestrator claims, III ---------------------- *)

\* C21: no stage is retried: each external tool is started at most once, and
\* once a stage has failed no later stage is entered, cleanup and report do not
\* run, and run() has returned that stage's exit code.
C21_NoRetryFailureAborts ==
    /\ \A t \in Tools : invoked[t] <= 1
    /\ stage["archive"] = "failed" =>
        /\ pc = "done" /\ rc = 1
        /\ stage["parity"] = "pending" /\ stage["upload"] = "pending"
        /\ invoked["parity"] = 0 /\ invoked["uploader"] = 0
    /\ stage["parity"] = "failed" =>
        /\ pc = "done" /\ rc = 2
        /\ stage["upload"] = "pending" /\ invoked["uploader"] = 0
    /\ stage["upload"] = "failed" => (pc = "done" /\ rc = 3)
    /\ (\E g \in Stages : stage[g] = "failed") => (cleanup_calls = 0 /\ ~reported)

C21_Witness ==
    /\ pc = "done" /\ rc = 1 /\ stage["archive"] = "failed"
    /\ invoked["archiver"] = 1 /\ exits["archiver"] = 1

\* the stage that runs tool t
StageOf(t) ==
    CASE t = "archiver" -> "archive"
      [] t = "parity" -> "parity"
      [] t = "uploader" -> "upload"

\* C22: an exception raised while spawning or supervising a stage's tool is
\* caught inside the stage and becomes a stage failure: run() has returned,
\* with the failing stage's exit code, and nothing after that stage ran.
C22_ToolExceptionsBecomeStageFailures ==
    \A t \in Tools :
        exits[t] = Raised =>
            /\ stage[StageOf(t)] = "failed"
            /\ pc = "done" /\ rc = StageExit(StageOf(t))
            /\ cleanup_calls = 0 /\ ~reported

C22_Witness ==
    /\ pc = "done" /\ rc = 3 /\ exits["uploader"] = Raised
    /\ exits["archiver"] = 0 /\ exits["parity"] = 0

\* C26: in dry-run mode with no skip flag no external tool is ever started, yet
\* the archive, parity and upload stages are traversed in that order, each
\* recording its would-be artifact path and succeeding, before the final report.
C26_DryRunTraversesStagesWithoutTools ==
    (dry_run /\ ~skip_rar /\ ~skip_par /\ ~skip_upload) =>
        /\ NoToolInvoked
        /\ \A g \in Stages : stage[g] # "failed"
        /\ stage["parity"] = "ok" => (stage["archive"] = "ok" /\ rar_file = DerivedRar)
        /\ stage["upload"] = "ok" => (stage["parity"] = "ok" /\ par_file = DerivedPar)
        /\ reported => (stage["upload"] = "ok" /\ pc = "done" /\ rc = 0)

C26_Witness ==
    /\ dry_run /\ ~skip_rar /\ ~skip_par /\ ~skip_upload
    /\ reported /\ stage["upload"] = "ok" /\ NoToolInvoked /\ fs0 = {}

C28_MakeRarReturnCodes ==
    LET target == RarPath(folder_name)
        started == invoked["archiver"] > 0
        blocked == target \in fs0 /\ ~force
    IN  make_rar_call # NoCall =>
        /\ make_rar_call.rc \in {0, 2, 3, 4, 5}
        /\ folder_kind # "dir" => (make_rar_call.rc = 2 /\ ~started)
        /\ (folder_kind = "dir" /\ blocked) =>
               (make_rar_call.rc = 3 /\ ~started /\ pc = "done" /\ rc = 1)
        /\ (folder_kind = "dir" /\ ~blocked /\ ~make_rar_call.found) =>
               (make_rar_call.rc = 4 /\ ~started)
        /\ (folder_kind = "dir" /\ target \in fs0 /\ force /\ make_rar_call.found) =>
               (started \/ exits["archiver"] = Raised)
        /\ make_rar_call.rc = 0 => (started /\ exits["archiver"] = 0)
        /\ (started /\ exits["archiver"] # 0) => make_rar_call.rc = 5

\* the archive exists, force is off, and make_rar has been called
C28_Witness ==
    /\ make_rar_call # NoCall /\ make_rar_call.rc = 3 /\ make_rar_call.found
    /\ RarPath(folder_name) \in fs0 /\ ~force /\ invoked["archiver"] = 0 /\ rc = 1

(* ------------------------------ path claims ---------------------------- *)

\* two paths naming the same file
SameFile(a, b) == normpath(a) = normpath(b)

\* C27: the recorded archive path is <parent>/<folder-name>.rar and the recorded
\* parity base is <archive-base>.par2, whichever branch recorded them, and the
\* archive path is the file make_rar writes for the same folder.
C27_ArtifactPathsFollowConvention ==
    LET fp == absolute(path_in)
        archive_base == Append(PathParent(fp), PathName(fp))
    IN  /\ path_pc \in {"parity", "done"} =>
               /\ path_rar = Append(PathParent(archive_base), WithSuffix(PathName(archive_base), "rar"))
               /\ path_branch = "execute" => SameFile(path_rar, path_out)
        /\ path_pc = "done" =>
               path_par = Append(PathParent(archive_base), WithSuffix(PathName(archive_base), "par2"))

(* ------------------------- process session claims ---------------------- *)

\* C23: every stage run terminates: once the tool is running, the stage
\* eventually returns, also when the tool hangs (the stage then kills it after
\* the timeout and reports a failure); for every stage and kind of session.
C23_EveryStageRunTerminates ==
    (spc = "reading") ~> (spc = "returned")

\* the tool's lines that the stage has printed as they were written
IsWholeLine(e) == e.how \in {"verbatim", "debug"}
ShownLines == LET whole == SelectSeq(shown, IsWholeLine)
              IN  [i \in 1..Len(whole) |-> whole[i].text]

\* the tool ran, exited by itself with a non-zero status, and the stage returned
ExitedNonZero ==
    /\ spc = "returned" /\ ~dry_run /\ ~killed
    /\ ~proc.alive /\ proc.returncode # 0 /\ output # <<>>

\* C24: when a stage's tool exits with a non-zero status, its complete output
\* has been shown to the user verbatim, no line left out; for the archive, the
\* parity and the upload stage.
C24_FailedToolOutputShownVerbatim ==
    ExitedNonZero => ShownLines = output

\* run_upload (line-buffered session of the upload stage) has returned True
UploadReportedSuccessful ==
    session = [stage |-> "upload", kind |-> "lines"] /\ spc = "returned" /\ success

\* C25 as stated: on every execution in which run_upload returns success, the
\* progress indicator has been set to 100 before.
C25_IndicatorFullOnEverySuccess ==
    UploadReportedSuccessful => progress_bar = 100

\* C25 amended: on every execution outside dry-run in which run_upload returns
\* success, the progress indicator has been set to 100 before; in dry-run
\* run_upload returns success without creating an indicator.
C25_IndicatorFullOnExecutedSuccess ==
    /\ (UploadReportedSuccessful /\ ~dry_run) => progress_bar = 100
    /\ (UploadReportedSuccessful /\ dry_run) => progress_bar = None

C25_Witness ==
    /\ UploadReportedSuccessful /\ ~dry_run /\ progress_bar = 100
    /\ output = <<"Uploading 2 article(s)", "Uploaded 1/2 articles">>

(* --------------------------- parser claims, II ------------------------- *)

\* C31: every event parse_line returns has progress absent or within [0, 1],
\* and eta absent or a non-negative integer.
C31_ProgressAndEtaInRange ==
    (Parsed /\ ~result.raised) =>
        /\ result.progress = NoneR
               \/ (0 <= result.progress.num /\ result.progress.num <= result.progress.den)
        /\ result.eta = None \/ result.eta >= 0

\* C32: parse_line never divides by zero, and whenever the elapsed time is not
\* positive or the computed rate is not greater than 0, the event's eta is
\* absent rather than a number.
C32_NoEtaWithoutPositiveRate ==
    [][(ParseStep /\ ~result'.raised) =>
          /\ result'.progress # NoneR => result'.progress.den # 0
          /\ result'.speed # NoneR => result'.speed.den # 0
          /\ (start_time' = None \/ now - start_time' <= 0) => result'.eta = None
          /\ (result'.speed = NoneR \/ result'.speed.num <= 0) => result'.eta = None]_vars

\* C33: the bare N/M rule (pattern 5) sets progress or changes the parser's
\* article counters only if the line has none of the size/file keywords and
\* 0 < M < 10000; otherwise it leaves the event and the parser as they were.
C33_BareFractionGuarded ==
    [][ParseStep =>
          \E before \in {AfterRule(4, ParserFields, result'.raw, now)} :
          \E after \in {Rule5(before, result'.raw, now)} :
              after # before =>
                  /\ Match5(result'.raw).found
                  /\ ~HasSizeKeyword(result'.raw)
                  /\ 0 < Match5(result'.raw).g2
                  /\ Match5(result'.raw).g2 < SanityCeiling]_vars

\* the bare line "1/2" has been parsed with the timer running: pattern 5 acted
C33_Witness ==
    /\ Parsed /\ ~result.raised /\ result.raw = BareLine(1, 2)
    /\ result.progress = Frac(1, 2)
    /\ uploaded_articles = 1 /\ total_articles = 2

\* C34: the percentage rule (pattern 6) yields progress P/100 only when
\* 0 <= P <= 100; for a percentage outside that range it yields nothing.
C34_PercentageWithinRange ==
    [][ParseStep =>
          \E before \in {AfterRule(5, ParserFields, result'.raw, now)} :
          \E after \in {Rule6(before, result'.raw, now)} :
          \E m \in {Match6(result'.raw)} :
              /\ after # before =>
                     /\ m.found /\ 0 <= m.g1 /\ m.g1 <= 100
                     /\ after.progress = Frac(m.g1, 100)
              /\ (m.found /\ ~(0 <= m.g1 /\ m.g1 <= 100)) => after = before]_vars

\* "50%" has been parsed: pattern 6 acted
C34_Witness ==
    /\ Parsed /\ ~result.raised /\ result.raw = PercentLine(50)
    /\ result.progress = Frac(50, 100)

\* C35: the "N articles sent" rule (pattern 7) updates the completed count and
\* yields progress only when N is greater than the recorded completed count; for
\* N <= the recorded count it changes neither the count nor the event.
C35_SentCountMustGrow ==
    [][ParseStep =>
          \E before \in {AfterRule(6, ParserFields, result'.raw, now)} :
          \E after \in {Rule7(before, result'.raw, now)} :
          \E m \in {Match7(result'.raw)} :
              /\ after # before => (m.found /\ m.g1 > before.uploaded_articles)
              /\ (m.found /\ m.g1 <= before.uploaded_articles) => after = before
              /\ (m.found /\ result'.raw = SentLine(m.g1) /\ m.g1 <= uploaded_articles) =>
                     (uploaded_articles' = uploaded_articles /\ result'.progress = NoneR)]_vars

\* "2 articles sent" has been parsed with total 2 and the timer running
C35_Witness ==
    /\ Parsed /\ ~result.raised /\ result.raw = SentLine(2)
    /\ uploaded_articles = 2 /\ total_articles = 2
    /\ result.progress = Frac(2, 2)

(* ------------------------- pty supervisor claims ----------------------- *)

\* C36: run_command_with_pty stops reading only at the end of the stream (an
\* empty read or a read error), collects the exit status only after the stream
\* has ended, closes the terminal descriptor and waits for the child on every
\* exit path, and signals failure exactly when the collected status is non-zero.
C36_PtySupervision ==
    /\ pty_stop # "none" =>
           (pty_stop \in {"eof", "read_error"} /\ pty_child.stream = "closed")
    /\ pty_status # None => (pty_stop # "none" /\ pty_child.stream = "closed")
    /\ pty_pc = "returned" =>
           /\ pty_master = "closed"
           /\ pty_child.spawned => pty_status # None
           /\ pty_signal # "returned" <=> (pty_status # None /\ pty_status # 0)

\* C37: within one upload stage run the value shown by the progress indicator
\* never decreases, whatever lines the tool writes.
C37_ShownProgressNeverDecreases ==
    [][(session.kind = "lines" /\ progress_bar # None /\ progress_bar' # None) =>
          progress_bar' >= progress_bar]_vars

(* ------------------------ orchestrator claims, II ----------------------- *)

\* what cleanup() may delete: the recorded archive, the recorded parity base and
\* the files matching <archive-base>.vol*.par2
Deletable(f) ==
    \/ f = rar_file
    \/ f = par_file
    \/ (f.kind = "vol" /\ f.stem = Splitext0(rar_file))

\* C38: a run that returns a non-zero exit code has deleted no file; cleanup() is
\* reached only after the upload stage has returned success; and the only files
\* ever deleted are the recorded archive, the recorded parity base and the
\* volumes <archive-base>.vol*.par2.
C38_FailedRunDeletesNothing ==
    /\ (pc = "done" /\ rc # 0) => (deleted = {} /\ cleanup_calls = 0 /\ fs0 \subseteq fs)
    /\ (cleanup_calls > 0 \/ deleted # {}) => stage["upload"] = "ok"
    /\ \A f \in deleted : rar_file # NoPath /\ Deletable(f)

\* the upload failed with the archive and the parity base on disk and nothing
\* asking to keep them
C38_Witness ==
    /\ pc = "done" /\ rc = 3 /\ stage["upload"] = "failed" /\ ~keep_files
    /\ rar_file \in fs /\ par_file \in fs

\* C39: when the input folder is missing or not a directory, run() returns
\* without prompting for credentials and without writing the credential file.
C39_InvalidFolderLeavesCredentialsAlone ==
    (pc = "done" /\ folder_kind # "dir") => EnvPath \notin written

\* C40: a skip flag takes precedence over dry-run. With --skip-rar the archive
\* stage succeeds exactly when the archive is on disk, dry-run or not, and with
\* --skip-par the parity stage succeeds exactly when the parity file is on disk;
\* neither starts its tool, and a missing artifact fails the run with the stage's
\* exit code even in dry-run mode.
C40_SkipBeforeDryRun ==
    /\ (skip_rar /\ stage["archive"] # "pending") =>
          /\ stage["archive"] = "ok" <=> RarPath(folder_name) \in fs0
          /\ invoked["archiver"] = 0
          /\ stage["archive"] = "failed" => (pc = "done" /\ rc = StageExit("archive"))
    /\ (skip_par /\ stage["parity"] # "pending") =>
          /\ stage["parity"] = "ok" <=> ParPath(RarPath(folder_name)) \in fs0
          /\ invoked["parity"] = 0
          /\ stage["parity"] = "failed" => (pc = "done" /\ rc = StageExit("parity"))

\* a dry run with --skip-rar and no archive on disk has ended
C40_Witness ==
    /\ dry_run /\ skip_rar /\ RarPath(folder_name) \notin fs0
    /\ pc = "done" /\ stage["archive"] = "failed"

====
